---- MODULE Spec2Model ----
(***************************************************************************)
(* Matching engine, order book and settlement (execute_order) of the       *)
(* trading backend.                                                        *)
(*                                                                         *)
(* Decimal values.  A quantity is an integer number of 10^-6 coins (the    *)
(* scale of the epsilon of execution.rs).  A price is a whole number of    *)
(* currency units.  An amount of money is a record [c, n]: c whole         *)
(* currency units and n units of 10^-9 (a price times a quantity times the *)
(* fee rate 10^-3 is a whole number of those), 0 <= n < 10^9.  Sums,       *)
(* differences, products and the fee are exact, as they are in             *)
(* rust_decimal for values of this size; a quotient is carried to the      *)
(* precision of its unit (rust_decimal carries 28 significant digits).     *)
(***************************************************************************)
EXTENDS Integers, Sequences, FiniteSets, TLC

\* ---------------------------------------------------------------- bounds
MaxOrders == 3
MaxTicks == 2

\* ------------------------------------------------------ program constants
TRADING_FEE_RATE_NUM == 1
TRADING_FEE_RATE_SCALE == 3
EpsilonNum == 1
EpsilonScale == 6
initial_balance == 100000

RECURSIVE Pow10(_)
Pow10(k) == IF k = 0 THEN 1 ELSE 10 * Pow10(k - 1)

QtyScale == Pow10(EpsilonScale)
FeeScale == Pow10(TRADING_FEE_RATE_SCALE)
NanoScale == QtyScale * FeeScale

\* ------------------------------------------------------------- the inputs
Users == {"u1", "u2"}

\* A coin id is a string, written as the sequence of its characters.
Btc == <<"b", "t", "c">>
Eth == <<"e", "t", "h">>
Coins == {Btc, Eth}

\* char::to_lowercase on the characters that occur
LowerChar(ch) ==
    CASE ch = "B" -> "b"
      [] ch = "T" -> "t"
      [] ch = "C" -> "c"
      [] ch = "E" -> "e"
      [] ch = "H" -> "h"
      [] OTHER -> ch

\* str::to_lowercase
ToLowercase(str) == [i \in 1..Len(str) |-> LowerChar(str[i])]

\* str::trim: the white space at both ends removed
RECURSIVE TrimStart(_)
TrimStart(str) ==
    IF str # <<>> /\ str[1] = " " THEN TrimStart(Tail(str)) ELSE str

RECURSIVE TrimEnd(_)
TrimEnd(str) ==
    IF str # <<>> /\ str[Len(str)] = " "
    THEN TrimEnd(SubSeq(str, 1, Len(str) - 1))
    ELSE str

Trim(str) == TrimEnd(TrimStart(str))

\* coin_id.trim().to_lowercase(): the key of the book and of the holdings
CoinKey(coin_id) == ToLowercase(Trim(coin_id))

\* The limit orders a client may place: user, coin, side, quantity, price.
\* u1 has a profile and holds eth; u2 has no profile row and holds nothing.
OrderInputs ==
    {<<"u1", Btc, "buy", 1000000, 40000>>,
     <<"u1", Eth, "buy", 1000000, 40000>>,
     <<"u1", Eth, "sell", 999999, 40000>>,
     <<"u1", Eth, "sell", 1000000, 40000>>,
     <<"u2", Btc, "buy", 3000000, 40000>>,
     <<"u2", Btc, "sell", 1000000, 40000>>}

\* The tickers the feed may deliver: coin, close price.
Tickers ==
    {<<Btc, 39500>>, <<Btc, 40000>>, <<Btc, 40500>>, <<Eth, 40000>>}
\* a row that may be missing: <<>> or <<the row>>
NoRow == <<>>
Some(x) == <<x>>
Get(r) == r[1]

\* ------------------------------------------------------------------ money
Money(c, n) == [c |-> c + (n \div NanoScale), n |-> n % NanoScale]
MAdd(a, b) == Money(a.c + b.c, a.n + b.n)
MSub(a, b) == Money(a.c - b.c, a.n - b.n)
MLess(a, b) == a.c < b.c \/ (a.c = b.c /\ a.n < b.n)
Whole(x) == [c |-> x, n |-> 0]

\* execution_price * quantity
MulPriceQty(p, q) ==
    LET w == q \div QtyScale
        fa == (q % QtyScale) \div FeeScale
        fb == q % FeeScale
        a == p * fa
        b == p * fb
    IN Money(p * w + (a \div FeeScale) + (b \div QtyScale),
             (a % FeeScale) * QtyScale + (b % QtyScale) * FeeScale)

\* total_amount * fee_rate
MulFee(t) ==
    Money((t.c * TRADING_FEE_RATE_NUM) \div FeeScale,
          ((t.c * TRADING_FEE_RATE_NUM) % FeeScale) * QtyScale
              + (t.n * TRADING_FEE_RATE_NUM) \div FeeScale)

VARIABLES orders, profiles, holdings, transactions, book, prices,
          matchTasks, execs, profLock, nextUid, ticks, lastTick,
          matched, ledger, failed, strategies, strategy_logs, loop,
          bookLock, feed, calls, added, cycle, clock, entry, backoff,
          mutexes

\* the book lock, the position of the feed task, the add_order calls that
\* wait for the lock, the record of the add_order and bootstrap results, and
\* the mutexes of the price map and of the ticker map with their readers
engineVars == <<bookLock, feed, calls, added, mutexes>>

\* the position of process_strategies in its cycle, the wall clock, and the
\* local variables of handle_entry
cycleVars == <<cycle, clock, entry, backoff>>

vars == <<orders, profiles, holdings, transactions, book, prices,
          matchTasks, execs, profLock, nextUid, ticks, lastTick,
          matched, ledger, failed, strategies, strategy_logs, loop,
          engineVars, cycleVars>>

\* ------------------------------------------------------------ the database
HoldingKeys == Users \X Coins

\* the order row of a book entry or of an execution
Row(id) == orders[id]

\* ------------------------------------------------------------------- Init
InitialProfiles == [u \in Users |-> IF u = "u1" THEN Some(Whole(50000)) ELSE NoRow]

InitialHoldings ==
    [k \in HoldingKeys |->
        IF k = <<"u1", Eth>>
        THEN Some([quantity |-> 1000001, average_buy_price |-> 30000])
        ELSE NoRow]

\* process_strategies between two cycles
Sleeping ==
    [pc |-> "sleep", snapshot |-> <<>>, rows |-> <<>>, k |-> 0, prices |-> <<>>,
     s |-> <<>>]

\* the mutexes of the price map and of the ticker map are free, and no call
\* of get_prices or get_top_volume_coins is under way
NoHolders ==
    [prices |-> "free", ticker_data |-> "free",
     get_prices |-> "idle", get_top_volume_coins |-> "idle"]

\* the loop of the automation engine has no failed cycle behind it:
\* error_count is 0 and no delay has been computed
NoBackoff == [error_count |-> 0, delay |-> 0]

\* handle_entry has not run: no tickers read, no klines, no analyses, and
\* nothing logged
NoEntry == [top |-> <<>>, klines |-> <<>>, analyses |-> <<>>, log |-> ""]

\* A running strategy of u1, as start_strategy inserts it.
StrategyIds == {"s1"}

InitialStrategies ==
    [id \in StrategyIds |->
        [user_id |-> "u1", amount |-> 40000, profit_percentage |-> 5,
         total_iterations |-> 1, end_time |-> 1, status |-> "running",
         iterations_completed |-> 0, current_coin_id |-> NoRow,
         current_order_id |-> NoRow, entry_price |-> NoRow,
         high_water_mark |-> NoRow]]

Init ==
    /\ orders = <<>>
    /\ profiles = InitialProfiles
    /\ holdings = InitialHoldings
    /\ transactions = <<>>
    /\ book = [c \in Coins |-> <<>>]
    /\ prices = [c \in Coins |-> 0]
    /\ matchTasks = {}
    /\ execs = {}
    /\ profLock = [u \in Users |-> 0]
    /\ nextUid = 1
    /\ ticks = 0
    /\ lastTick = [coin |-> <<>>, price |-> 0]
    /\ matched = {}
    /\ ledger = <<>>
    /\ failed = {}
    /\ strategies = InitialStrategies
    /\ strategy_logs = <<>>
    /\ loop = [pc |-> "idle", strategy |-> "", uid |-> 0, best |-> <<>>]
    /\ bookLock = "free"
    /\ feed = [pc |-> "wait", rows |-> <<>>, frame |-> <<>>, indices |-> <<>>]
    /\ calls = {}
    /\ added = {}
    /\ cycle = Sleeping
    /\ clock = 0
    /\ entry = NoEntry
    /\ backoff = NoBackoff
    /\ mutexes = NoHolders

\* ------------------------------------------------------- the matching engine

\* MatchingEngine::add_order: the entry appended to the list of the coin
AddOrder(bk, uid, order_id, coin_id, order_type, price, quantity) ==
    IF price <= 0
    THEN bk
    ELSE [bk EXCEPT ![CoinKey(coin_id)] =
             Append(@, [uid |-> uid, id |-> order_id, order_type |-> order_type,
                        quantity |-> quantity, price |-> price])]

\* A client stores a pending limit order and posts it to process_order,
\* which registers it in the book.
ProcessOrder(u, c, t, q, p) ==
    /\ Len(orders) < MaxOrders
    /\ orders' = Append(orders,
           [user_id |-> u, coin_id |-> c, order_type |-> t, order_mode |-> "limit",
            quantity |-> q, price_per_unit |-> Some(p),
            total_amount |-> MulPriceQty(p, q),
            order_status |-> "pending"])
    /\ book' = AddOrder(book, nextUid, Len(orders) + 1, c, t, p, q)
    /\ nextUid' = nextUid + 1
    /\ UNCHANGED <<profiles, holdings, transactions, prices, matchTasks, execs,
                   profLock, ticks, lastTick, matched, ledger, failed, strategies, strategy_logs, loop>>
    /\ UNCHANGED <<engineVars, cycleVars>>

\* is_match of the matching loop
IsMatch(order, current_price) ==
    CASE order.order_type = "buy" -> current_price <= order.price
      [] order.order_type = "sell" -> current_price >= order.price
      [] OTHER -> FALSE

\* the order settled at its limit price
ExecPriceLimit(order, current_price) == order.price

\* let exec_price = current_price
ExecPrice(order, current_price) == current_price

\* executed_indices: the indices of the matching orders, in scan order
RECURSIVE ExecutedIndices(_, _, _)
ExecutedIndices(coin_orders, current_price, i) ==
    IF i > Len(coin_orders) THEN <<>>
    ELSE (IF IsMatch(coin_orders[i], current_price) THEN <<i>> ELSE <<>>)
             \o ExecutedIndices(coin_orders, current_price, i + 1)

\* Vec::remove(i)
RemoveAt(s, i) == SubSeq(s, 1, i - 1) \o SubSeq(s, i + 1, Len(s))

\* the removal running over executed_indices front to back
RECURSIVE RemoveExecutedForward(_, _)
RemoveExecutedForward(coin_orders, indices) ==
    IF indices = <<>> THEN coin_orders
    ELSE RemoveExecutedForward(RemoveAt(coin_orders, indices[1]), Tail(indices))

\* the removal left out
RemoveExecutedNever(coin_orders, indices) == coin_orders

\* for &i in executed_indices.iter().rev() { coin_orders.remove(i) }
RECURSIVE RemoveExecuted(_, _)
RemoveExecuted(coin_orders, indices) ==
    IF indices = <<>> THEN coin_orders
    ELSE RemoveExecuted(RemoveAt(coin_orders, indices[Len(indices)]),
                        SubSeq(indices, 1, Len(indices) - 1))

\* The feed task handles one ticker of a frame, holding the book lock:
\* it stores the price, scans the list of the coin, spawns an execution
\* task for every match and removes the matched orders.
Tick(c, p) ==
    /\ ticks < MaxTicks
    /\ LET idx == ExecutedIndices(book[c], p, 1)
           hit == {book[c][idx[k]] : k \in 1..Len(idx)}
       IN /\ prices' = [prices EXCEPT ![c] = p]
          /\ book' = [book EXCEPT ![c] = RemoveExecuted(@, idx)]
          /\ matchTasks' = matchTasks \cup
                 {[uid |-> o.uid, id |-> o.id, quantity |-> o.quantity,
                   execution_price |-> ExecPrice(o, p)] : o \in hit}
          /\ matched' = matched \cup
                 {[uid |-> o.uid, id |-> o.id, coin |-> c, order_type |-> o.order_type,
                   limit |-> o.price, market |-> p, tick |-> ticks + 1] : o \in hit}
    /\ ticks' = ticks + 1
    /\ lastTick' = [coin |-> c, price |-> p]
    /\ UNCHANGED <<orders, profiles, holdings, transactions, execs, profLock,
                   nextUid, ledger, failed, strategies, strategy_logs, loop>>
    /\ UNCHANGED <<engineVars, cycleVars>>

\* A call of execution::execute_order(order_id, execution_price) at its start.
\* uid names the call; balance and created are the locals of the call.
NewExec(uid, order_id, execution_price) ==
    [uid |-> uid, order_id |-> order_id, execution_price |-> execution_price,
     pc |-> "begin", balance |-> Whole(0), created |-> FALSE]

\* MatchingEngine::execute_order: the spawned task marks the order row
\* completed at the execution price and spawns the settlement.
MatchExecute(t) ==
    /\ t \in matchTasks
    /\ matchTasks' = matchTasks \ {t}
    /\ orders' = [orders EXCEPT ![t.id] =
           [@ EXCEPT !.order_status = "completed",
                     !.price_per_unit = Some(t.execution_price),
                     !.total_amount = MulPriceQty(t.execution_price, t.quantity)]]
    /\ execs' = execs \cup {NewExec(t.uid, t.id, t.execution_price)}
    /\ UNCHANGED <<profiles, holdings, transactions, book, prices, profLock,
                   nextUid, ticks, lastTick, matched, ledger, failed, strategies, strategy_logs, loop>>
    /\ UNCHANGED <<engineVars, cycleVars>>

\* ------------------------------------------------ execution::execute_order

Epsilon == EpsilonNum * (QtyScale \div Pow10(EpsilonScale))

\* cost / quantity, carried to whole currency units: the largest price
\* whose product with the quantity does not exceed the cost
RECURSIVE Above(_, _, _)
Above(cost, q, h) ==
    IF MLess(cost, MulPriceQty(h, q)) THEN h ELSE Above(cost, q, 2 * h)

RECURSIVE Bisect(_, _, _, _)
Bisect(cost, q, lo, hi) ==
    IF hi - lo <= 1 THEN lo
    ELSE LET mid == (lo + hi) \div 2
         IN IF MLess(cost, MulPriceQty(mid, q))
            THEN Bisect(cost, q, lo, mid)
            ELSE Bisect(cost, q, mid, hi)

DivMoneyQty(cost, q) == Bisect(cost, q, 0, Above(cost, q, 1))

\* the profile row read without FOR UPDATE
RowLockIgnored(u) == TRUE

\* SELECT ... FROM profiles WHERE id = $1 FOR UPDATE waits while another
\* transaction holds the row
RowLockFree(u) == profLock[u] = 0

\* the fee left out of the cost of a buy, and added to the proceeds of a sell
TotalCostNoFee(total_amount) == total_amount
ProceedsPlusFee(total_amount) == MAdd(total_amount, MulFee(total_amount))

\* total_cost of a buy and proceeds of a sell
TotalCost(total_amount) == MAdd(total_amount, MulFee(total_amount))
Proceeds(total_amount) == MSub(total_amount, MulFee(total_amount))

\* the holding row after a buy of quantity at execution_price
BuyHolding(h, quantity, execution_price) ==
    IF h = NoRow
    THEN Some([quantity |-> quantity, average_buy_price |-> execution_price])
    ELSE LET current_qty == Get(h).quantity
             current_avg == Get(h).average_buy_price
             total_qty == current_qty + quantity
             old_cost == MulPriceQty(current_avg, current_qty)
             new_cost == MulPriceQty(execution_price, quantity)
         IN Some([quantity |-> total_qty,
                  average_buy_price |->
                      DivMoneyQty(MAdd(old_cost, new_cost), total_qty)])

\* the holding row kept when the remainder equals epsilon
SellHoldingInclusive(h, quantity) ==
    LET current_qty == IF h = NoRow THEN 0 ELSE Get(h).quantity
        new_qty == current_qty - quantity
    IN IF h = NoRow THEN NoRow
       ELSE IF new_qty >= Epsilon THEN Some([Get(h) EXCEPT !.quantity = new_qty])
       ELSE NoRow

\* the holding row updated whatever the remainder is
SellHoldingKeepsRow(h, quantity) ==
    IF h = NoRow THEN NoRow
    ELSE Some([Get(h) EXCEPT !.quantity = Get(h).quantity - quantity])

\* the holding row after a sell of quantity
SellHolding(h, quantity) ==
    LET current_qty == IF h = NoRow THEN 0 ELSE Get(h).quantity
        new_qty == current_qty - quantity
    IN IF h = NoRow THEN NoRow
       ELSE IF new_qty > Epsilon THEN Some([Get(h) EXCEPT !.quantity = new_qty])
       ELSE NoRow

\* The order row is read and the profile row is selected FOR UPDATE.
ExecLockProfile(e) ==
    /\ e \in execs
    /\ e.pc = "begin"
    /\ LET u == Row(e.order_id).user_id
       IN IF profiles[u] # NoRow
          THEN /\ RowLockFree(u)
               /\ profLock' = [profLock EXCEPT ![u] = e.uid]
               /\ execs' = (execs \ {e}) \cup
                      {[e EXCEPT !.pc = "settle", !.balance = Get(profiles[u])]}
          ELSE /\ profLock' = profLock
               /\ execs' = (execs \ {e}) \cup {[e EXCEPT !.pc = "insert"]}
    /\ UNCHANGED <<orders, profiles, holdings, transactions, book, prices,
                   matchTasks, nextUid, ticks, lastTick, matched, ledger, failed, strategies, strategy_logs, loop>>
    /\ UNCHANGED <<engineVars, cycleVars>>

\* a table of profiles that accepts a second row with the same id
ProfileIdFree(u) == FALSE

\* profiles.id is the key of the table: a profile is created once per user,
\* and a second row with a committed id is refused
ProfileIdTaken(u) == profiles[u] # NoRow

\* an insert of the id of u waits while another transaction has inserted
\* that id and has not ended
ProfileIdPending(u) == profLock[u] # 0

\* No profile row was found: INSERT INTO profiles with the seed balance.
\* The insert waits for an uncommitted insert of the same id and fails on
\* a committed one.
ExecInsertProfile(e) ==
    /\ e \in execs
    /\ e.pc = "insert"
    /\ LET u == Row(e.order_id).user_id
       IN IF ProfileIdTaken(u)
          THEN /\ execs' = execs \ {e}
               /\ failed' = failed \cup {[order_id |-> e.order_id, error |-> "duplicate"]}
               /\ profLock' = profLock
          ELSE /\ ~ProfileIdPending(u)
               /\ profLock' = [profLock EXCEPT ![u] = e.uid]
               /\ execs' = (execs \ {e}) \cup
                      {[e EXCEPT !.pc = "settle", !.balance = Whole(initial_balance),
                                 !.created = TRUE]}
               /\ failed' = failed
    /\ UNCHANGED <<orders, profiles, holdings, transactions, book, prices,
                   matchTasks, nextUid, ticks, lastTick, matched, ledger,
                   strategies, strategy_logs, loop>>
    /\ UNCHANGED <<engineVars, cycleVars>>

\* a rollback that keeps the profile row the transaction inserted
RollbackKeepsProfile(e, u, error) ==
    /\ execs' = execs \ {e}
    /\ profLock' = [profLock EXCEPT ![u] = IF @ = e.uid THEN 0 ELSE @]
    /\ failed' = failed \cup {[order_id |-> e.order_id, error |-> error]}
    /\ profiles' = [profiles EXCEPT ![u] = IF e.created THEN Some(e.balance) ELSE @]
    /\ UNCHANGED <<holdings, transactions, ledger>>

\* what the transaction of e leaves when it rolls back
Rollback(e, u, error) ==
    /\ execs' = execs \ {e}
    /\ profLock' = [profLock EXCEPT ![u] = IF @ = e.uid THEN 0 ELSE @]
    /\ failed' = failed \cup {[order_id |-> e.order_id, error |-> error]}
    /\ UNCHANGED <<profiles, holdings, transactions, ledger>>

\* what the transaction of e writes when it commits
Commit(e, u, c, row, balance, holding) ==
    /\ execs' = execs \ {e}
    /\ profLock' = [profLock EXCEPT ![u] = IF @ = e.uid THEN 0 ELSE @]
    /\ profiles' = [profiles EXCEPT ![u] = Some(balance)]
    /\ holdings' = [holdings EXCEPT ![<<u, c>>] = holding]
    /\ transactions' = Append(transactions,
           [user_id |-> u, order_id |-> e.order_id,
            transaction_type |-> row.order_type, coin_id |-> c,
            quantity |-> row.quantity, price_per_unit |-> e.execution_price,
            total_amount |-> MulPriceQty(e.execution_price, row.quantity)])
    /\ ledger' = Append(ledger,
           [order_id |-> e.order_id,
            balance_before |-> IF profiles[u] = NoRow THEN Whole(initial_balance)
                               ELSE Get(profiles[u]),
            balance_after |-> balance,
            holding_before |-> holdings[<<u, c>>],
            holding_after |-> holding,
            started_from |-> e.balance,
            created |-> e.created])
    /\ failed' = failed

\* The buy or sell branch, the transaction record and the commit.
ExecSettle(e) ==
    /\ e \in execs
    /\ e.pc = "settle"
    /\ LET row == Row(e.order_id)
           u == row.user_id
           c == CoinKey(row.coin_id)
           total_amount == MulPriceQty(e.execution_price, row.quantity)
       IN IF row.order_type = "buy"
          THEN IF MLess(e.balance, TotalCost(total_amount))
               THEN Rollback(e, u, "Insufficient balance")
               ELSE Commit(e, u, c, row, MSub(e.balance, TotalCost(total_amount)),
                           BuyHolding(holdings[<<u, c>>], row.quantity,
                                      e.execution_price))
          ELSE Commit(e, u, c, row, MAdd(e.balance, Proceeds(total_amount)),
                      SellHolding(holdings[<<u, c>>], row.quantity))
    /\ UNCHANGED <<orders, book, prices, matchTasks, nextUid, ticks, lastTick,
                   matched, strategies, strategy_logs, loop>>
    /\ UNCHANGED <<engineVars, cycleVars>>

\* ------------------------------------------- the strategy loop: handle_entry

\* strategy.amount / best.current_price, carried to 10^-6
DivAmountPrice(amount, price) ==
    LET r1 == amount % price
        d1 == (r1 * FeeScale) \div price
        r2 == (r1 * FeeScale) % price
        d2 == (r2 * FeeScale) \div price
    IN (amount \div price) * QtyScale + d1 * FeeScale + d2

\* the buy of a strategy that is not read again
IsRunningUnchecked(id) == TRUE

\* the strategy row is read again before the buy: is it still running?
IsRunning(id) == strategies[id].status = "running"

\* handle_entry has chosen the coin best at the price current_price of its
\* analysis: the strategy row is read again, the completed market buy is
\* stored and logged, and execute_order is called.
HandleEntryBuyAt(id, best, current_price) ==
    /\ loop.pc = "idle"
    /\ Len(orders) < MaxOrders
    /\ IsRunning(id)
    /\ strategies[id].current_order_id = NoRow
    /\ strategies[id].current_coin_id = NoRow
    /\ current_price > 0
    /\ LET quantity == DivAmountPrice(strategies[id].amount, current_price)
           buy_order_id == Len(orders) + 1
       IN /\ orders' = Append(orders,
                 [user_id |-> strategies[id].user_id, coin_id |-> best,
                  order_type |-> "buy", order_mode |-> "market",
                  quantity |-> quantity, price_per_unit |-> Some(current_price),
                  total_amount |-> Whole(strategies[id].amount),
                  order_status |-> "completed"])
          /\ strategy_logs' = Append(strategy_logs,
                 [strategy_id |-> id, action |-> "buy", coin_id |-> best,
                  price |-> current_price, quantity |-> quantity,
                  amount |-> Whole(strategies[id].amount), profit |-> NoRow])
          /\ execs' = execs \cup {NewExec(nextUid, buy_order_id, current_price)}
          /\ loop' = [pc |-> "buy", strategy |-> id, uid |-> nextUid,
                      best |-> <<best, current_price>>]
    /\ nextUid' = nextUid + 1
    /\ UNCHANGED <<profiles, holdings, transactions, book, prices, matchTasks,
                   profLock, ticks, lastTick, matched, ledger, failed, strategies>>
    /\ UNCHANGED engineVars

\* handle_entry has chosen the coin best at the price of its ticker (the
\* outcome of the analysis is an input here).
HandleEntryBuy(id, best) == HandleEntryBuyAt(id, best, prices[best])

\* the strategy enters the position without a high water mark
HandleEntryEnterUnmarked ==
    /\ loop.pc = "buy"
    /\ \A e \in execs : e.uid # loop.uid
    /\ strategies' = [strategies EXCEPT ![loop.strategy] =
           [@ EXCEPT !.current_coin_id = Some(loop.best[1]),
                     !.current_order_id = NoRow,
                     !.entry_price = Some(loop.best[2])]]
    /\ loop' = [pc |-> "idle", strategy |-> "", uid |-> 0, best |-> <<>>]
    /\ UNCHANGED <<orders, profiles, holdings, transactions, book, prices,
                   matchTasks, execs, profLock, nextUid, ticks, lastTick, matched,
                   ledger, failed, strategy_logs>>
    /\ UNCHANGED engineVars

\* execute_order has returned, with or without an error: the strategy
\* enters the position.
HandleEntryEnter ==
    /\ loop.pc = "buy"
    /\ \A e \in execs : e.uid # loop.uid
    /\ strategies' = [strategies EXCEPT ![loop.strategy] =
           [@ EXCEPT !.current_coin_id = Some(loop.best[1]),
                     !.current_order_id = NoRow,
                     !.entry_price = Some(loop.best[2]),
                     !.high_water_mark = Some(loop.best[2])]]
    /\ loop' = [pc |-> "idle", strategy |-> "", uid |-> 0, best |-> <<>>]
    /\ UNCHANGED <<orders, profiles, holdings, transactions, book, prices,
                   matchTasks, execs, profLock, nextUid, ticks, lastTick, matched,
                   ledger, failed, strategy_logs>>
    /\ UNCHANGED engineVars

\* ------------------------------------------------------------------ Next
Next ==
    \/ \E o \in OrderInputs : ProcessOrder(o[1], o[2], o[3], o[4], o[5])
    \/ \E k \in Tickers : Tick(k[1], k[2])
    \/ \E t \in matchTasks : MatchExecute(t)
    \/ \E e \in execs : ExecLockProfile(e)
    \/ \E e \in execs : ExecInsertProfile(e)
    \/ \E e \in execs : ExecSettle(e)
    \/ \E id \in StrategyIds, best \in Coins :
           HandleEntryBuy(id, best) /\ UNCHANGED cycleVars
    \/ HandleEntryEnter /\ UNCHANGED cycleVars

Spec == Init /\ [][Next]_vars

\* ------------------- the matching engine, one step of the feed task at a time

\* the add_order calls the clients may make
MaxCalls == 2

\* coin ids as clients and stored rows may spell them
BtcRaw == <<" ", "B", "T", "C", " ">>
EthRaw == <<"E", "t", "h">>

\* The orders table when the engine starts: two pending limit orders with a
\* price, one with a null price, one with price 0, a pending market order
\* and a completed limit order.
PersistedOrders ==
    <<[user_id |-> "u1", coin_id |-> Btc, order_type |-> "buy",
       order_mode |-> "limit", quantity |-> 1000000,
       price_per_unit |-> Some(40000), total_amount |-> Whole(40000),
       order_status |-> "pending"],
      [user_id |-> "u1", coin_id |-> EthRaw, order_type |-> "sell",
       order_mode |-> "limit", quantity |-> 1000000,
       price_per_unit |-> Some(40000), total_amount |-> Whole(40000),
       order_status |-> "pending"],
      [user_id |-> "u1", coin_id |-> Btc, order_type |-> "buy",
       order_mode |-> "limit", quantity |-> 1000000,
       price_per_unit |-> NoRow, total_amount |-> Whole(0),
       order_status |-> "pending"],
      [user_id |-> "u1", coin_id |-> Btc, order_type |-> "sell",
       order_mode |-> "limit", quantity |-> 1000000,
       price_per_unit |-> Some(0), total_amount |-> Whole(0),
       order_status |-> "pending"],
      [user_id |-> "u1", coin_id |-> Btc, order_type |-> "buy",
       order_mode |-> "market", quantity |-> 1000000,
       price_per_unit |-> Some(40000), total_amount |-> Whole(40000),
       order_status |-> "pending"],
      [user_id |-> "u1", coin_id |-> Btc, order_type |-> "buy",
       order_mode |-> "limit", quantity |-> 1000000,
       price_per_unit |-> Some(40000), total_amount |-> Whole(40000),
       order_status |-> "completed"]>>

\* The requests posted to process_order: user, coin, side, quantity, price.
BookInputs ==
    {<<"u1", BtcRaw, "buy", 1000000, 40000>>,
     <<"u2", Btc, "sell", 1000000, 40500>>,
     <<"u1", Eth, "buy", 1000000, 0>>,
     <<"u1", Btc, "sell", 1000000, -1>>}

\* The frames the feed may deliver: the tickers of a frame, in order.
FrameInputs ==
    {<< <<Btc, 40000>> >>,
     << <<Btc, 39500>> >>,
     << <<Btc, 39500>>, <<Eth, 40000>> >>,
     << <<Eth, 39000>>, <<Btc, 40500>> >>}

\* The engine starts: the orders table is as persisted, the book is empty
\* and load_pending_orders has not run.
InitBook ==
    /\ orders = PersistedOrders
    /\ profiles = InitialProfiles
    /\ holdings = InitialHoldings
    /\ transactions = <<>>
    /\ book = [c \in Coins |-> <<>>]
    /\ prices = [c \in Coins |-> 0]
    /\ matchTasks = {}
    /\ execs = {}
    /\ profLock = [u \in Users |-> 0]
    /\ nextUid = 1
    /\ ticks = 0
    /\ lastTick = [coin |-> <<>>, price |-> 0]
    /\ matched = {}
    /\ ledger = <<>>
    /\ failed = {}
    /\ strategies = InitialStrategies
    /\ strategy_logs = <<>>
    /\ loop = [pc |-> "idle", strategy |-> "", uid |-> 0, best |-> <<>>]
    /\ bookLock = "free"
    /\ feed = [pc |-> "boot", rows |-> <<>>, frame |-> <<>>, indices |-> <<>>]
    /\ calls = {}
    /\ added = {}
    /\ cycle = Sleeping
    /\ clock = 0
    /\ entry = NoEntry
    /\ backoff = NoBackoff
    /\ mutexes = NoHolders

\* the variables of the settlement and of the strategies
settleVars == <<profiles, holdings, transactions, execs, profLock, ledger, failed>>
strategyVars == <<strategies, strategy_logs, loop>>

\* the book lock taken although it is held
BookLockIgnored == TRUE

\* self.orders.lock().await returns when no task holds the book lock
BookLockFree == bookLock = "free"

\* price_per_unit.unwrap_or_default()
UnwrapOrDefault(price_per_unit) ==
    IF price_per_unit = NoRow THEN 0 ELSE Get(price_per_unit)

\* SELECT ... FROM orders WHERE order_status = 'pending' AND order_mode =
\* 'limit': the ids of the rows, here in the order of the table
RECURSIVE PendingLimitRows(_)
PendingLimitRows(i) ==
    IF i > Len(orders) THEN <<>>
    ELSE (IF orders[i].order_status = "pending" /\ orders[i].order_mode = "limit"
          THEN <<i>> ELSE <<>>) \o PendingLimitRows(i + 1)

\* load_pending_orders has read the pending limit orders.
LoadSelect ==
    /\ feed.pc = "boot"
    /\ feed' = [feed EXCEPT !.pc = "loaded", !.rows = PendingLimitRows(1)]
    /\ UNCHANGED <<orders, book, prices, matchTasks, nextUid, ticks, lastTick,
                   matched, bookLock, calls, added>>
    /\ UNCHANGED <<settleVars, strategyVars, cycleVars, mutexes>>

\* the rows without a positive price pushed as well
RECURSIVE LoadRowsUnchecked(_, _, _)
LoadRowsUnchecked(bk, rows, uid) ==
    IF rows = <<>> THEN bk
    ELSE LET row == orders[rows[1]]
             coin_id == CoinKey(row.coin_id)
         IN LoadRowsUnchecked(
                [bk EXCEPT ![coin_id] =
                    Append(@, [uid |-> uid, id |-> rows[1],
                               order_type |-> row.order_type,
                               quantity |-> row.quantity,
                               price |-> UnwrapOrDefault(row.price_per_unit)])],
                Tail(rows), uid + 1)

\* the loop of load_pending_orders over the rows: a row without a positive
\* price is skipped, the others are pushed to the list of their coin; uid
\* names the registration of the first row
RECURSIVE LoadRows(_, _, _)
LoadRows(bk, rows, uid) ==
    IF rows = <<>> THEN bk
    ELSE LET row == orders[rows[1]]
             coin_id == CoinKey(row.coin_id)
             price == UnwrapOrDefault(row.price_per_unit)
         IN IF price <= 0
            THEN LoadRows(bk, Tail(rows), uid + 1)
            ELSE LoadRows(
                     [bk EXCEPT ![coin_id] =
                         Append(@, [uid |-> uid, id |-> rows[1],
                                    order_type |-> row.order_type,
                                    quantity |-> row.quantity, price |-> price])],
                     Tail(rows), uid + 1)

\* load_pending_orders takes the book lock and pushes the rows; then the
\* feed task starts.
LoadPush ==
    /\ feed.pc = "loaded"
    /\ BookLockFree
    /\ book' = LoadRows(book, feed.rows, nextUid)
    /\ added' = added \cup
           {[uid |-> nextUid + k - 1, id |-> feed.rows[k],
             coin_id |-> orders[feed.rows[k]].coin_id,
             price |-> UnwrapOrDefault(orders[feed.rows[k]].price_per_unit),
             at |-> ticks] : k \in 1..Len(feed.rows)}
    /\ nextUid' = nextUid + Len(feed.rows)
    /\ feed' = [feed EXCEPT !.pc = "wait", !.rows = <<>>]
    /\ UNCHANGED <<orders, prices, matchTasks, ticks, lastTick,
                   matched, bookLock, calls>>
    /\ UNCHANGED <<settleVars, strategyVars, cycleVars, mutexes>>

\* the feed task waiting for the spawned executions before it goes on
FeedAwaitsSettlement == matchTasks = {} /\ execs = {}

\* tokio::spawn returns at once and its JoinHandle is dropped: the feed task
\* goes on whatever the spawned executions do
FeedMayProceed == TRUE

\* A frame of tickers arrives: the feed task takes the book lock.
FeedFrame(frame) ==
    /\ feed.pc = "wait"
    /\ ticks + Len(frame) <= MaxTicks
    /\ BookLockFree
    /\ FeedMayProceed
    /\ bookLock' = "feed"
    /\ feed' = [feed EXCEPT !.pc = "scan", !.frame = frame]
    /\ UNCHANGED <<orders, book, prices, matchTasks, nextUid, ticks, lastTick,
                   matched, calls, added>>
    /\ UNCHANGED <<settleVars, strategyVars, cycleVars, mutexes>>

\* The feed task, holding the book lock, takes the next ticker of the frame:
\* it stores the price, scans the list of the coin and spawns an execution
\* task for every match.
FeedScanAt(pc) ==
    /\ feed.pc = pc
    /\ feed.frame # <<>>
    /\ FeedMayProceed
    /\ LET c == feed.frame[1][1]
           p == feed.frame[1][2]
           idx == ExecutedIndices(book[c], p, 1)
           hit == {book[c][idx[k]] : k \in 1..Len(idx)}
       IN /\ prices' = [prices EXCEPT ![c] = p]
          /\ matchTasks' = matchTasks \cup
                 {[uid |-> o.uid, id |-> o.id, quantity |-> o.quantity,
                   execution_price |-> ExecPrice(o, p)] : o \in hit}
          /\ matched' = matched \cup
                 {[uid |-> o.uid, id |-> o.id, coin |-> c, order_type |-> o.order_type,
                   limit |-> o.price, market |-> p, tick |-> ticks + 1] : o \in hit}
          /\ lastTick' = [coin |-> c, price |-> p]
          /\ feed' = [feed EXCEPT !.pc = "remove", !.indices = idx]
    /\ ticks' = ticks + 1
    /\ UNCHANGED <<orders, book, nextUid, bookLock, calls, added>>
    /\ UNCHANGED <<settleVars, strategyVars, cycleVars>>

\* the ticker is taken up where the frame stands (the price map is not
\* locked apart here)
FeedScan == FeedScanAt("scan") /\ UNCHANGED mutexes

\* The feed task removes the matched orders of the ticker from the list.
FeedRemove ==
    /\ feed.pc = "remove"
    /\ FeedMayProceed
    /\ book' = [book EXCEPT ![feed.frame[1][1]] = RemoveExecuted(@, feed.indices)]
    /\ feed' = [feed EXCEPT !.pc = "scan", !.frame = Tail(@), !.indices = <<>>]
    /\ UNCHANGED <<orders, prices, matchTasks, nextUid, ticks, lastTick,
                   matched, bookLock, calls, added>>
    /\ UNCHANGED <<settleVars, strategyVars, cycleVars, mutexes>>

\* The frame is finished: the guard of the book lock is dropped.
FeedRelease ==
    /\ feed.pc = "scan"
    /\ feed.frame = <<>>
    /\ FeedMayProceed
    /\ bookLock' = "free"
    /\ feed' = [feed EXCEPT !.pc = "wait"]
    /\ UNCHANGED <<orders, book, prices, matchTasks, nextUid, ticks, lastTick,
                   matched, calls, added>>
    /\ UNCHANGED <<settleVars, strategyVars, cycleVars, mutexes>>

\* process_order inserts the row and calls add_order: a price that is not
\* positive returns at once, any other call goes on to the book lock.
ProcessOrderCall(u, c, t, q, p) ==
    /\ Len(orders) < Len(PersistedOrders) + MaxCalls
    /\ orders' = Append(orders,
           [user_id |-> u, coin_id |-> c, order_type |-> t, order_mode |-> "limit",
            quantity |-> q, price_per_unit |-> Some(p),
            total_amount |-> MulPriceQty(p, q),
            order_status |-> "pending"])
    /\ IF p <= 0
       THEN /\ added' = added \cup
                   {[uid |-> nextUid, id |-> Len(orders) + 1, coin_id |-> c,
                     price |-> p, at |-> ticks]}
            /\ calls' = calls
       ELSE /\ calls' = calls \cup
                   {[uid |-> nextUid, order_id |-> Len(orders) + 1, coin_id |-> c,
                     order_type |-> t, price |-> p, quantity |-> q]}
            /\ added' = added
    /\ nextUid' = nextUid + 1
    /\ UNCHANGED <<book, prices, matchTasks, ticks, lastTick, matched, bookLock, feed>>
    /\ UNCHANGED <<settleVars, strategyVars, cycleVars, mutexes>>

\* add_order gets the book lock and pushes the order.
AddOrderPush(call) ==
    /\ call \in calls
    /\ BookLockFree
    /\ book' = AddOrder(book, call.uid, call.order_id, call.coin_id,
                        call.order_type, call.price, call.quantity)
    /\ calls' = calls \ {call}
    /\ added' = added \cup
           {[uid |-> call.uid, id |-> call.order_id, coin_id |-> call.coin_id,
             price |-> call.price, at |-> ticks]}
    /\ UNCHANGED <<orders, prices, matchTasks, nextUid, ticks, lastTick,
                   matched, bookLock, feed>>
    /\ UNCHANGED <<settleVars, strategyVars, cycleVars, mutexes>>

NextBook ==
    \/ LoadSelect
    \/ LoadPush
    \/ \E frame \in FrameInputs : FeedFrame(frame)
    \/ FeedScan
    \/ FeedRemove
    \/ FeedRelease
    \/ \E o \in BookInputs : ProcessOrderCall(o[1], o[2], o[3], o[4], o[5])
    \/ \E call \in calls : AddOrderPush(call)
    \/ \E t \in matchTasks : MatchExecute(t)
    \/ \E e \in execs : ExecLockProfile(e)
    \/ \E e \in execs : ExecInsertProfile(e)
    \/ \E e \in execs : ExecSettle(e)

SpecBook == InitBook /\ [][NextBook]_vars

\* ------------------------------ the strategy engine, one await at a time

\* the order rows the strategy handlers and the panic handler may add
MaxRows == 5

\* the readings of the wall clock
MaxClock == 1

\* The tickers the feed may deliver for the coin of the position.
StrategyTickers == {<<Eth, 29000>>, <<Eth, 31000>>, <<Eth, 40000>>}

\* The ATR the klines of the coin may give.
AtrInputs == {0, 500}

\* the order of the rows of SELECT * FROM strategies
StrategyOrder == <<"s1">>

\* The orders table when the engines start: a pending limit sell of u1,
\* which load_pending_orders has put in the book, and a completed buy.
StrategyOrders ==
    <<[user_id |-> "u1", coin_id |-> Eth, order_type |-> "sell",
       order_mode |-> "limit", quantity |-> 1000000,
       price_per_unit |-> Some(40000), total_amount |-> Whole(40000),
       order_status |-> "pending"],
      [user_id |-> "u1", coin_id |-> Eth, order_type |-> "buy",
       order_mode |-> "limit", quantity |-> 1000000,
       price_per_unit |-> Some(30000), total_amount |-> Whole(30000),
       order_status |-> "completed"]>>

\* The strategies table when the engines start: the strategy has no
\* position, or holds eth bought at 30000, or holds eth and tracks the
\* pending sell, or tracks the completed buy.
Fresh ==
    [user_id |-> "u1", amount |-> 30000, profit_percentage |-> 5,
     total_iterations |-> 1, end_time |-> 1, status |-> "running",
     iterations_completed |-> 0, current_coin_id |-> NoRow,
     current_order_id |-> NoRow, entry_price |-> NoRow,
     high_water_mark |-> NoRow]

InPosition ==
    [Fresh EXCEPT !.total_iterations = 2, !.iterations_completed = 1,
                  !.current_coin_id = Some(Eth), !.entry_price = Some(30000),
                  !.high_water_mark = Some(30000)]

Tracking ==
    [Fresh EXCEPT !.current_coin_id = Some(Eth), !.entry_price = Some(30000),
                  !.current_order_id = Some(1)]

Bought ==
    [Fresh EXCEPT !.current_coin_id = Some(Eth), !.current_order_id = Some(2)]

PersistedStrategies == {Fresh, InPosition, Tracking, Bought}

InitStrategy ==
    /\ orders = StrategyOrders
    /\ profiles = InitialProfiles
    /\ holdings = InitialHoldings
    /\ transactions = <<>>
    /\ book = [c \in Coins |->
                  IF c = Eth
                  THEN <<[uid |-> 1, id |-> 1, order_type |-> "sell",
                          quantity |-> 1000000, price |-> 40000]>>
                  ELSE <<>>]
    /\ prices = [c \in Coins |-> 0]
    /\ matchTasks = {}
    /\ execs = {}
    /\ profLock = [u \in Users |-> 0]
    /\ nextUid = 2
    /\ ticks = 0
    /\ lastTick = [coin |-> <<>>, price |-> 0]
    /\ matched = {}
    /\ ledger = <<>>
    /\ failed = {}
    /\ \E row \in PersistedStrategies : strategies = [id \in StrategyIds |-> row]
    /\ strategy_logs = <<>>
    /\ loop = [pc |-> "idle", strategy |-> "", uid |-> 0, best |-> <<>>]
    /\ bookLock = "free"
    /\ feed = [pc |-> "wait", rows |-> <<>>, frame |-> <<>>, indices |-> <<>>]
    /\ calls = {}
    /\ added = {}
    /\ cycle = Sleeping
    /\ clock = 0
    /\ entry = NoEntry
    /\ backoff = NoBackoff
    /\ mutexes = NoHolders

\* the variables of the matching engine
marketVars == <<book, prices, matchTasks, ticks, lastTick, matched>>

\* Utc::now() has moved on.
ClockAdvance ==
    /\ clock < MaxClock
    /\ clock' = clock + 1
    /\ UNCHANGED <<orders, nextUid, marketVars, settleVars, strategyVars,
                   engineVars, cycle, entry, backoff>>

\* A cycle of process_strategies starts: the running strategies are read.
CycleStart ==
    /\ cycle.pc = "sleep"
    /\ LET running == SelectSeq(StrategyOrder,
                                LAMBDA id : strategies[id].status = "running")
       IN /\ running # <<>>
          /\ cycle' = [pc |-> "limits", snapshot |-> running, rows |-> strategies,
                       k |-> 1, prices |-> <<>>, s |-> <<>>]
    /\ UNCHANGED <<orders, nextUid, marketVars, settleVars, strategyVars,
                   engineVars, clock, entry, backoff>>

\* the strategy stopped for its time limit only
TimeLimitReached(strategy) == clock >= strategy.end_time

\* the strategy stopped for its order count only
OrderLimitReached(strategy) ==
    strategy.iterations_completed >= strategy.total_iterations

\* the termination checks on a strategy of the snapshot: the time limit,
\* then the order count limit
LimitReached(strategy) ==
    \/ clock >= strategy.end_time
    \/ strategy.iterations_completed >= strategy.total_iterations

\* stop_strategy(id, reason), and the stop handler with reason stopped
StopStrategy(id, reason) == [strategies EXCEPT ![id].status = reason]

\* The limits of the next strategy of the snapshot are checked.
CycleLimit ==
    /\ cycle.pc = "limits"
    /\ cycle.k <= Len(cycle.snapshot)
    /\ LET id == cycle.snapshot[cycle.k]
       IN strategies' = IF LimitReached(cycle.rows[id])
                        THEN StopStrategy(id, "completed")
                        ELSE strategies
    /\ cycle' = [cycle EXCEPT !.k = @ + 1]
    /\ UNCHANGED <<orders, nextUid, marketVars, settleVars, strategy_logs, loop,
                   engineVars, clock, entry, backoff>>

\* The prices are read: without any price the cycle ends, without an error.
CyclePrices ==
    /\ cycle.pc = "limits"
    /\ cycle.k > Len(cycle.snapshot)
    /\ IF \A c \in Coins : prices[c] = 0
       THEN cycle' = Sleeping /\ backoff' = NoBackoff
       ELSE /\ cycle' = [cycle EXCEPT !.pc = "dispatch", !.k = 1, !.prices = prices]
            /\ backoff' = backoff
    /\ UNCHANGED <<orders, nextUid, marketVars, settleVars, strategyVars,
                   engineVars, clock, entry>>

\* the cycle goes on to the next strategy of the snapshot
NextStrategy == [cycle EXCEPT !.pc = "dispatch", !.k = @ + 1, !.s = <<>>]

\* The next strategy of the snapshot is read again: it is handled only when
\* it is still running.
CycleDispatch ==
    /\ cycle.pc = "dispatch"
    /\ cycle.k <= Len(cycle.snapshot)
    /\ LET id == cycle.snapshot[cycle.k]
       IN cycle' = IF strategies[id].status = "running"
                   THEN [cycle EXCEPT !.pc = "handler", !.s = Some(strategies[id])]
                   ELSE NextStrategy
    /\ UNCHANGED <<orders, nextUid, marketVars, settleVars, strategyVars,
                   engineVars, clock, entry, backoff>>

\* All strategies of the snapshot are handled: the loop sleeps.
CycleEnd ==
    /\ cycle.pc = "dispatch"
    /\ cycle.k > Len(cycle.snapshot)
    /\ cycle' = Sleeping
    /\ backoff' = NoBackoff
    /\ UNCHANGED <<orders, nextUid, marketVars, settleVars, strategyVars,
                   engineVars, clock, entry>>

\* buy_price * (1 + profit_percentage / 100)
TargetPrice(price, profit_percentage) == (price * (100 + profit_percentage)) \div 100

\* a row of strategy_logs as log_action writes it
LogRow(id, action, coin_id, price, quantity, amount, profit) ==
    [strategy_id |-> id, action |-> action, coin_id |-> coin_id, price |-> price,
     quantity |-> quantity, amount |-> amount, profit |-> profit]

\* only a cancelled order counts as given up
IsCancelled(order_status) == order_status = "cancelled"

\* order.order_status == "cancelled" || order.order_status == "failed"
CancelledOrFailed(order_status) == order_status \in {"cancelled", "failed"}

\* SELECT ... FROM orders WHERE id = $1 has returned a row
OrderFound(order_id) == order_id \in DOMAIN orders

\* check_order_status: the tracked order of the strategy is read and the
\* strategy moves on with it; without the row only the track is cleared.
CheckOrderStatus ==
    /\ cycle.pc = "handler"
    /\ Get(cycle.s).current_order_id # NoRow
    /\ LET id == cycle.snapshot[cycle.k]
           strategy == Get(cycle.s)
           order_id == Get(strategy.current_order_id)
           order == orders[order_id]
           coin_id == Get(strategy.current_coin_id)
           price == UnwrapOrDefault(order.price_per_unit)
           sell_order_id == Len(orders) + 1
       IN CASE ~ OrderFound(order_id) ->
                 /\ strategies' = [strategies EXCEPT ![id].current_order_id = NoRow]
                 /\ UNCHANGED <<orders, book, nextUid, strategy_logs>>
            [] order.order_status = "completed" /\ order.order_type = "buy" /\ price > 0 ->
                 /\ Len(orders) < MaxRows
                 /\ orders' = Append(orders,
                        [user_id |-> strategy.user_id, coin_id |-> coin_id,
                         order_type |-> "sell", order_mode |-> "limit",
                         quantity |-> order.quantity,
                         price_per_unit |-> Some(TargetPrice(price, strategy.profit_percentage)),
                         total_amount |-> MulPriceQty(TargetPrice(price, strategy.profit_percentage),
                                                      order.quantity),
                         order_status |-> "pending"])
                 /\ book' = AddOrder(book, nextUid, sell_order_id, coin_id, "sell",
                                     TargetPrice(price, strategy.profit_percentage),
                                     order.quantity)
                 /\ nextUid' = nextUid + 1
                 /\ strategies' = [strategies EXCEPT ![id] =
                        [@ EXCEPT !.current_order_id = Some(sell_order_id),
                                  !.entry_price = Some(price)]]
                 /\ UNCHANGED strategy_logs
            [] order.order_status = "completed" /\ order.order_type = "sell" ->
                 /\ strategy_logs' = Append(strategy_logs,
                        LogRow(id, "sell", coin_id, price, order.quantity,
                               MulPriceQty(price, order.quantity),
                               Some([sell_price |-> price,
                                     entry_price |-> IF strategy.entry_price = NoRow
                                                     THEN price
                                                     ELSE Get(strategy.entry_price)])))
                 /\ strategies' = [strategies EXCEPT ![id] =
                        [@ EXCEPT !.current_coin_id = NoRow,
                                  !.current_order_id = NoRow,
                                  !.entry_price = NoRow,
                                  !.iterations_completed = @ + 1]]
                 /\ UNCHANGED <<orders, book, nextUid>>
            [] CancelledOrFailed(order.order_status) /\ order.order_type = "buy" ->
                 /\ strategies' = [strategies EXCEPT ![id] =
                        [@ EXCEPT !.current_coin_id = NoRow,
                                  !.current_order_id = NoRow,
                                  !.entry_price = NoRow]]
                 /\ UNCHANGED <<orders, book, nextUid, strategy_logs>>
            [] CancelledOrFailed(order.order_status) /\ order.order_type = "sell" ->
                 /\ strategies' = [strategies EXCEPT ![id].current_order_id = NoRow]
                 /\ UNCHANGED <<orders, book, nextUid, strategy_logs>>
            [] OTHER ->
                 UNCHANGED <<orders, book, nextUid, strategies, strategy_logs>>
    /\ cycle' = NextStrategy
    /\ UNCHANGED <<prices, matchTasks, ticks, lastTick, matched, settleVars, loop,
                   engineVars, clock, entry, backoff>>

\* the stop price of handle_active_trade in thousandths: the trailing stop
\* when the position is more than 0.5% in profit, the initial stop otherwise
StopPrice(current_price, entry_price, high_water_mark, atr) ==
    IF (current_price - entry_price) * 200 > entry_price
    THEN IF atr > 0
         THEN IF high_water_mark - atr * 2 >= current_price
              THEN current_price * 999
              ELSE (high_water_mark - atr * 2) * 1000
         ELSE high_water_mark * 995
    ELSE IF atr > 0
         THEN (entry_price - atr * 3) * 1000
         ELSE entry_price * 970

\* should_sell without the profit target
ShouldSellAtStop(current_price, entry_price, high_water_mark, atr, profit_percentage) ==
    current_price * 1000 <= StopPrice(current_price, entry_price, high_water_mark, atr)

\* should_sell: the stop is hit or the profit target is reached
ShouldSell(current_price, entry_price, high_water_mark, atr, profit_percentage) ==
    \/ current_price * 1000 <= StopPrice(current_price, entry_price, high_water_mark, atr)
    \/ current_price * 100 >= entry_price * (100 + profit_percentage)

\* the mark follows every price that differs from it
MarkMoved(current_price, mark) == current_price # mark

\* current_price > high_water_mark: the mark is raised and stored
MarkRaised(current_price, mark) == current_price > mark

\* the position sold by what the amount buys at the price of the exit
RemainingAtMarket(amount, entry_price, current_price) ==
    DivAmountPrice(amount, current_price)

\* remaining_quantity: total_quantity = amount / entry_price, less the
\* quarters sold at the profit targets, whose flags no code sets
RemainingQuantity(amount, entry_price, current_price) ==
    DivAmountPrice(amount, entry_price)

\* handle_active_trade: the high water mark is raised, the stop and the
\* target are computed from the ATR of the klines, and when one of them is
\* hit the completed market sell is stored and logged and execute_order is
\* called.
ActiveTrade(atr) ==
    /\ cycle.pc = "handler"
    /\ Get(cycle.s).current_order_id = NoRow
    /\ Get(cycle.s).current_coin_id # NoRow
    /\ LET id == cycle.snapshot[cycle.k]
           strategy == Get(cycle.s)
           coin_id == Get(strategy.current_coin_id)
           current_price == cycle.prices[coin_id]
           entry_price == UnwrapOrDefault(strategy.entry_price)
           mark == IF strategy.high_water_mark = NoRow
                   THEN entry_price ELSE Get(strategy.high_water_mark)
           high_water_mark == IF MarkRaised(current_price, mark)
                              THEN current_price ELSE mark
           raised == IF MarkRaised(current_price, mark)
                     THEN [strategies EXCEPT ![id].high_water_mark = Some(current_price)]
                     ELSE strategies
           remaining_quantity ==
               RemainingQuantity(strategy.amount, entry_price, current_price)
           order_id == Len(orders) + 1
       IN IF current_price = 0 \/ entry_price <= 0
          THEN /\ cycle' = NextStrategy
               /\ UNCHANGED <<orders, nextUid, execs, strategyVars>>
          ELSE IF /\ ShouldSell(current_price, entry_price, high_water_mark, atr,
                                strategy.profit_percentage)
                  /\ remaining_quantity > 0
               THEN /\ Len(orders) < MaxRows
                    /\ orders' = Append(orders,
                           [user_id |-> strategy.user_id, coin_id |-> coin_id,
                            order_type |-> "sell", order_mode |-> "market",
                            quantity |-> remaining_quantity,
                            price_per_unit |-> Some(current_price),
                            total_amount |-> MulPriceQty(current_price, remaining_quantity),
                            order_status |-> "completed"])
                    /\ strategy_logs' = Append(strategy_logs,
                           LogRow(id, "sell", coin_id, current_price, remaining_quantity,
                                  MulPriceQty(current_price, remaining_quantity),
                                  Some([total_sell_amount |->
                                            MulPriceQty(current_price, remaining_quantity),
                                        amount |-> strategy.amount])))
                    /\ execs' = execs \cup {NewExec(nextUid, order_id, current_price)}
                    /\ loop' = [pc |-> "sell", strategy |-> id, uid |-> nextUid,
                                best |-> <<coin_id, current_price>>]
                    /\ nextUid' = nextUid + 1
                    /\ strategies' = raised
                    /\ cycle' = [cycle EXCEPT !.pc = "exit"]
               ELSE /\ strategies' = raised
                    /\ cycle' = NextStrategy
                    /\ UNCHANGED <<orders, nextUid, execs, strategy_logs, loop>>
    /\ UNCHANGED <<profiles, holdings, transactions, profLock, ledger, failed,
                   marketVars, engineVars, clock, entry, backoff>>

\* execute_order has returned, with or without an error: the position
\* fields are cleared and the iteration is counted.
ActiveTradeReset ==
    /\ cycle.pc = "exit"
    /\ loop.pc = "sell"
    /\ \A e \in execs : e.uid # loop.uid
    /\ strategies' = [strategies EXCEPT ![loop.strategy] =
           [@ EXCEPT !.current_coin_id = NoRow,
                     !.current_order_id = NoRow,
                     !.entry_price = NoRow,
                     !.high_water_mark = NoRow,
                     !.iterations_completed = @ + 1]]
    /\ loop' = [pc |-> "idle", strategy |-> "", uid |-> 0, best |-> <<>>]
    /\ cycle' = NextStrategy
    /\ UNCHANGED <<orders, nextUid, marketVars, settleVars, strategy_logs,
                   engineVars, clock, entry, backoff>>

\* handle_entry with a coin that passed the analysis: the buy.
EntryBuy(best) ==
    /\ cycle.pc = "handler"
    /\ Get(cycle.s).current_order_id = NoRow
    /\ Get(cycle.s).current_coin_id = NoRow
    /\ HandleEntryBuy(cycle.snapshot[cycle.k], best)
    /\ cycle' = [cycle EXCEPT !.pc = "entry"]
    /\ UNCHANGED <<clock, entry, backoff>>

\* handle_entry without a coin that passed the analysis, or with a strategy
\* that is found stopped before the buy.
EntryNone ==
    /\ cycle.pc = "handler"
    /\ Get(cycle.s).current_order_id = NoRow
    /\ Get(cycle.s).current_coin_id = NoRow
    /\ cycle' = NextStrategy
    /\ UNCHANGED <<orders, nextUid, marketVars, settleVars, strategyVars,
                   engineVars, clock, entry, backoff>>

\* handle_entry after the buy: the strategy enters the position.
EntryEnter ==
    /\ cycle.pc = "entry"
    /\ HandleEntryEnter
    /\ cycle' = NextStrategy
    /\ UNCHANGED <<clock, entry, backoff>>

\* The stop handler of the API: the status is set to stopped.
HttpStop(id) ==
    /\ strategies' = StopStrategy(id, "stopped")
    /\ UNCHANGED <<orders, nextUid, marketVars, settleVars, strategy_logs, loop,
                   engineVars, cycleVars>>

\* the first order of the table is marked cancelled, tracked or not
CancelUntracked(tbl, strategy) ==
    IF tbl # <<>> THEN [tbl EXCEPT ![1].order_status = "cancelled"] ELSE tbl

\* force_exit_strategy, step 2: the tracked order is marked cancelled
CancelTracked(tbl, strategy) ==
    IF strategy.current_order_id # NoRow /\ Get(strategy.current_order_id) \in DOMAIN tbl
    THEN [tbl EXCEPT ![Get(strategy.current_order_id)].order_status = "cancelled"]
    ELSE tbl

\* the price of the map whether the coin has one or not
PriceOrNone(price, entry_price) == price

\* prices.get(coin_id).cloned().unwrap_or(entry_price): a coin without a
\* ticker has the price 0 in the model
PriceOr(price, entry_price) == IF price > 0 THEN price ELSE entry_price

\* force_exit_strategy: the tracked order is cancelled, an open position is
\* sold with a pending market sell that is put in the book and logged, and
\* the strategy is stopped.
ForceExit(id) ==
    /\ LET strategy == strategies[id]
           cancelled == CancelTracked(orders, strategy)
           coin_id == Get(strategy.current_coin_id)
           entry_price == Get(strategy.entry_price)
           current_price == PriceOr(prices[coin_id], entry_price)
           quantity == DivAmountPrice(strategy.amount, entry_price)
           total_amount == MulPriceQty(current_price, quantity)
       IN IF /\ strategy.current_coin_id # NoRow
             /\ strategy.entry_price # NoRow
             /\ entry_price > 0
          THEN /\ Len(orders) < MaxRows
               /\ orders' = Append(cancelled,
                      [user_id |-> strategy.user_id, coin_id |-> coin_id,
                       order_type |-> "sell", order_mode |-> "market",
                       quantity |-> quantity,
                       price_per_unit |-> Some(current_price),
                       total_amount |-> total_amount,
                       order_status |-> "pending"])
               /\ book' = AddOrder(book, nextUid, Len(orders) + 1, coin_id, "sell",
                                   current_price, quantity)
               /\ nextUid' = nextUid + 1
               /\ strategy_logs' = Append(strategy_logs,
                      LogRow(id, "sell_force", coin_id, current_price, quantity,
                             total_amount,
                             Some([total_sell_amount |-> total_amount,
                                   amount |-> strategy.amount])))
          ELSE /\ orders' = cancelled
               /\ UNCHANGED <<book, nextUid, strategy_logs>>
    /\ strategies' = StopStrategy(id, "force_stopped")
    /\ UNCHANGED <<prices, matchTasks, ticks, lastTick, matched, settleVars, loop,
                   engineVars, cycleVars>>

NextStrategyEngine ==
    \/ \E k \in StrategyTickers : Tick(k[1], k[2])
    \/ \E t \in matchTasks : MatchExecute(t)
    \/ \E e \in execs : ExecLockProfile(e)
    \/ \E e \in execs : ExecSettle(e)
    \/ ClockAdvance
    \/ CycleStart
    \/ CycleLimit
    \/ CyclePrices
    \/ CycleDispatch
    \/ CycleEnd
    \/ CheckOrderStatus
    \/ \E atr \in AtrInputs : ActiveTrade(atr)
    \/ ActiveTradeReset
    \/ \E best \in Coins : EntryBuy(best)
    \/ EntryNone
    \/ EntryEnter
    \/ \E id \in StrategyIds : HttpStop(id)
    \/ \E id \in StrategyIds : ForceExit(id)

SpecStrategy == InitStrategy /\ [][NextStrategyEngine]_vars

\* ------------------- the strategy engine with the analysis of handle_entry

\* The tickers the feed may deliver while the strategy is followed.
PositionTickers == {<<Eth, 30900>>, <<Eth, 30570>>, <<Eth, 31500>>}

\* The ATR the klines of the coin of the position may give.
PositionAtrInputs == {0, 150}

\* The closes of the 1-minute klines of BTC the exchange may return: a fall
\* of 4%, a fall of exactly 1%, and fewer than five closes.
KlineInputs == {<<100, 99, 98, 97, 96>>, <<100, 100, 100, 100, 99>>, <<100>>}

\* a CoinAnalysis: entry_score and volume_ratio in hundredths, rsi and
\* price_change_percent in units
CoinAnalysis(coin_id, entry_score, rsi, volume_ratio, price_change_percent) ==
    [coin_id |-> coin_id, entry_score |-> entry_score, rsi |-> rsi,
     volume_ratio |-> volume_ratio, price_change_percent |-> price_change_percent]

\* The analyses handle_entry may collect, in the order of their completion.
AnalysisInputs ==
    { <<CoinAnalysis(Btc, 72, 40, 130, 2), CoinAnalysis(Eth, 85, 50, 130, 2)>>,
      <<CoinAnalysis(Eth, 85, 50, 130, 2), CoinAnalysis(Btc, 85, 40, 130, 2)>>,
      <<CoinAnalysis(Btc, 90, 75, 130, 2), CoinAnalysis(Eth, 72, 50, 130, 2)>>,
      <<CoinAnalysis(Eth, 85, 50, 100, 2)>>,
      <<>> }

\* The strategies table when the engines start: a strategy as start_strategy
\* inserts it, one whose amount is the whole balance of the user, and one
\* with no iteration to run.
AllIn == [Fresh EXCEPT !.amount = 50000]

Exhausted == [Fresh EXCEPT !.total_iterations = 0]

StartedStrategies == {Fresh, AllIn, Exhausted}

\* The orders table when the engines start: a completed buy and a cancelled
\* sell of u1, neither of them in the book.
PositionOrders ==
    <<StrategyOrders[2], [StrategyOrders[1] EXCEPT !.order_status = "cancelled"]>>

\* The feed has delivered a ticker of both coins.
InitPosition ==
    /\ orders = PositionOrders
    /\ profiles = InitialProfiles
    /\ holdings = InitialHoldings
    /\ transactions = <<>>
    /\ book = [c \in Coins |-> <<>>]
    /\ prices = [c \in Coins |-> IF c = Eth THEN 30000 ELSE 40000]
    /\ matchTasks = {}
    /\ execs = {}
    /\ profLock = [u \in Users |-> 0]
    /\ nextUid = 1
    /\ ticks = 0
    /\ lastTick = [coin |-> <<>>, price |-> 0]
    /\ matched = {}
    /\ ledger = <<>>
    /\ failed = {}
    /\ \E row \in StartedStrategies : strategies = [id \in StrategyIds |-> row]
    /\ strategy_logs = <<>>
    /\ loop = [pc |-> "idle", strategy |-> "", uid |-> 0, best |-> <<>>]
    /\ bookLock = "free"
    /\ feed = [pc |-> "wait", rows |-> <<>>, frame |-> <<>>, indices |-> <<>>]
    /\ calls = {}
    /\ added = {}
    /\ cycle = Sleeping
    /\ clock = 0
    /\ entry = NoEntry
    /\ backoff = NoBackoff
    /\ mutexes = NoHolders

\* get_btc_trend: the return of the last close over the first, as a
\* fraction; zero with fewer than five closes
GetBtcTrend(klines) ==
    IF Len(klines) < 5
    THEN [num |-> 0, den |-> 1]
    ELSE [num |-> klines[Len(klines)] - klines[1], den |-> klines[1]]

\* a trend that stops no entry
MarketDumpIgnored(btc_trend) == FALSE

\* btc_trend < -0.01
MarketDump(btc_trend) == btc_trend.num * 100 < - btc_trend.den

\* the filter of handle_entry on an analysis
PassesFilter(a) ==
    /\ ~ (a.rsi > 70)
    /\ ~ (a.entry_score < 70)
    /\ ~ (a.volume_ratio < 120)
    /\ a.price_change_percent > -5

\* the order of max_by: the entry_score first, then the lower rsi
Greater(a, b) ==
    \/ a.entry_score > b.entry_score
    \/ a.entry_score = b.entry_score /\ b.rsi > a.rsi

\* Iterator::max_by: the last of the greatest elements
RECURSIVE MaxBy(_, _, _)
MaxBy(s, i, best) ==
    IF i > Len(s) THEN best
    ELSE MaxBy(s, i + 1, IF Greater(best, s[i]) THEN best ELSE s[i])

\* the first analysis that passes the filter, whatever its score
BestCoinFirst(analyses) ==
    LET passing == SelectSeq(analyses, PassesFilter)
    IN IF passing = <<>> THEN NoRow ELSE Some(passing[1])

\* best_coin: the greatest of the analyses that pass the filter
BestCoin(analyses) ==
    LET passing == SelectSeq(analyses, PassesFilter)
    IN IF passing = <<>> THEN NoRow ELSE Some(MaxBy(passing, 2, passing[1]))

\* handle_entry has returned without a buy: its last line in the log
Returned(log) == [NoEntry EXCEPT !.log = log]

\* handle_entry, up to the answer of the klines of BTC: the tickers of the
\* liquid coins are read, and without any the handler returns.
EntryTrend(liquid, klines) ==
    /\ cycle.pc = "handler"
    /\ Get(cycle.s).current_order_id = NoRow
    /\ Get(cycle.s).current_coin_id = NoRow
    /\ IF liquid
       THEN /\ entry' = [NoEntry EXCEPT !.top = prices, !.klines = klines]
            /\ cycle' = [cycle EXCEPT !.pc = "trend"]
       ELSE /\ entry' = Returned("No liquid coins found after filtering")
            /\ cycle' = NextStrategy
    /\ UNCHANGED <<orders, nextUid, marketVars, settleVars, strategyVars,
                   engineVars, clock, backoff>>

\* handle_entry, from the trend of BTC to the call of execute_order: a market
\* dump ends it; else the analyses are collected, the best is chosen, the
\* strategy is read again and the buy is placed.
EntryAnalyse(analyses) ==
    /\ cycle.pc = "trend"
    /\ LET id == cycle.snapshot[cycle.k]
           best_coin == BestCoin(analyses)
           best == Get(best_coin)
       IN IF MarketDump(GetBtcTrend(entry.klines))
               \/ analyses = <<>> \/ best_coin = NoRow \/ ~ IsRunning(id)
          THEN /\ entry' =
                      IF MarketDump(GetBtcTrend(entry.klines))
                      THEN Returned("Global Market Dump Detected")
                      ELSE IF analyses = <<>>
                      THEN Returned("Analysis failed for all candidates")
                      ELSE IF best_coin = NoRow
                      THEN Returned("No coins meet threshold")
                      ELSE Returned("Strategy was stopped during analysis")
               /\ cycle' = NextStrategy
               /\ UNCHANGED <<orders, nextUid, marketVars, settleVars,
                              strategyVars, engineVars, clock, backoff>>
          ELSE /\ HandleEntryBuyAt(id, best.coin_id, entry.top[best.coin_id])
               /\ entry' = [entry EXCEPT !.analyses = analyses,
                                         !.log = "Placing MARKET BUY"]
               /\ cycle' = [cycle EXCEPT !.pc = "entry"]
               /\ UNCHANGED <<clock, backoff>>

NextPosition ==
    \/ \E k \in PositionTickers : Tick(k[1], k[2])
    \/ \E t \in matchTasks : MatchExecute(t)
    \/ \E e \in execs : ExecLockProfile(e)
    \/ \E e \in execs : ExecSettle(e)
    \/ ClockAdvance
    \/ CycleStart
    \/ CycleLimit
    \/ CyclePrices
    \/ CycleDispatch
    \/ CycleEnd
    \/ \E atr \in PositionAtrInputs : ActiveTrade(atr)
    \/ ActiveTradeReset
    \/ \E liquid \in BOOLEAN, klines \in KlineInputs : EntryTrend(liquid, klines)
    \/ \E analyses \in AnalysisInputs : EntryAnalyse(analyses)
    \/ EntryEnter
    \/ \E id \in StrategyIds : HttpStop(id)
    \/ \E id \in StrategyIds : ForceExit(id)

SpecPosition == InitPosition /\ [][NextPosition]_vars

\* --------------------- the strategy engine over every kind of tracked order

\* The tracked order the strategies table may hold when the engines start:
\* the type and the status of order 1, and the order id the strategy tracks;
\* order 9 has no row.
TrackedInputs ==
    ({"buy", "sell"} \X {"pending", "completed", "cancelled", "failed"} \X {1})
        \cup {<<"sell", "completed", 9>>}

\* The tickers the feed may deliver: eth at the price of the tracked sell,
\* and below the stop of the position.
TrackedTickers == {<<Eth, 31000>>, <<Eth, 29000>>}

\* order 1: a limit order of u1 on eth, a buy at 30000 or a sell at 31000
TrackedOrder(order_type, order_status) ==
    [user_id |-> "u1", coin_id |-> Eth, order_type |-> order_type,
     order_mode |-> "limit", quantity |-> 1000000,
     price_per_unit |-> Some(IF order_type = "buy" THEN 30000 ELSE 31000),
     total_amount |-> Whole(IF order_type = "buy" THEN 30000 ELSE 31000),
     order_status |-> order_status]

\* the strategy holds eth entered at 30000 and tracks order_id
TrackedStrategy(order_id) ==
    [Fresh EXCEPT !.total_iterations = 2, !.current_coin_id = Some(Eth),
                  !.entry_price = Some(30000),
                  !.current_order_id = Some(order_id)]

\* The engines start: order 1 is followed by a settled order, and
\* load_pending_orders has put order 1 in the book when it is pending.
InitTracked ==
    /\ \E t \in TrackedInputs :
          /\ orders = <<TrackedOrder(t[1], t[2]), PositionOrders[1]>>
          /\ book = [c \in Coins |->
                        IF c = Eth /\ t[2] = "pending"
                        THEN <<[uid |-> 1, id |-> 1, order_type |-> t[1],
                                quantity |-> 1000000,
                                price |-> IF t[1] = "buy" THEN 30000 ELSE 31000]>>
                        ELSE <<>>]
          /\ strategies = [id \in StrategyIds |-> TrackedStrategy(t[3])]
    /\ profiles = InitialProfiles
    /\ holdings = InitialHoldings
    /\ transactions = <<>>
    /\ prices = [c \in Coins |-> 0]
    /\ matchTasks = {}
    /\ execs = {}
    /\ profLock = [u \in Users |-> 0]
    /\ nextUid = 2
    /\ ticks = 0
    /\ lastTick = [coin |-> <<>>, price |-> 0]
    /\ matched = {}
    /\ ledger = <<>>
    /\ failed = {}
    /\ strategy_logs = <<>>
    /\ loop = [pc |-> "idle", strategy |-> "", uid |-> 0, best |-> <<>>]
    /\ bookLock = "free"
    /\ feed = [pc |-> "wait", rows |-> <<>>, frame |-> <<>>, indices |-> <<>>]
    /\ calls = {}
    /\ added = {}
    /\ cycle = Sleeping
    /\ clock = 0
    /\ entry = NoEntry
    /\ backoff = NoBackoff
    /\ mutexes = NoHolders

NextTracked ==
    \/ \E k \in TrackedTickers : Tick(k[1], k[2])
    \/ \E t \in matchTasks : MatchExecute(t)
    \/ \E e \in execs : ExecLockProfile(e)
    \/ \E e \in execs : ExecSettle(e)
    \/ ClockAdvance
    \/ CycleStart
    \/ CycleLimit
    \/ CyclePrices
    \/ CycleDispatch
    \/ CycleEnd
    \/ CheckOrderStatus
    \/ \E atr \in AtrInputs : ActiveTrade(atr)
    \/ ActiveTradeReset
    \/ \E best \in Coins : EntryBuy(best)
    \/ EntryNone
    \/ EntryEnter
    \/ \E id \in StrategyIds : HttpStop(id)
    \/ \E id \in StrategyIds : ForceExit(id)

SpecTracked == InitTracked /\ [][NextTracked]_vars

\* ------------------------------------ the loop of the automation engine

\* the consecutive failed cycles the model follows
MaxErrors == 7

\* every failure waits the first delay
DelayFlat(error_count) == 5

\* the delay of the Err arm of the loop, in seconds, after error_count
\* consecutive failures
Delay(error_count) ==
    IF error_count > 5 THEN 30
    ELSE IF error_count > 2 THEN 10
    ELSE 5

\* process_strategies finds no running strategy and returns Ok: the loop
\* clears its count and sleeps.
CycleIdle ==
    /\ cycle.pc = "sleep"
    /\ \A id \in StrategyIds : strategies[id].status # "running"
    /\ backoff' = NoBackoff
    /\ UNCHANGED <<orders, nextUid, marketVars, settleVars, strategyVars,
                   engineVars, cycle, clock, entry>>

\* A query of process_strategies or of a handler fails: the cycle returns
\* the error where it stands, and the loop counts it, computes the delay
\* and sleeps. A handler that failed after execute_order has returned from
\* it.
CycleFail ==
    /\ backoff.error_count < MaxErrors
    /\ cycle.pc \in {"entry", "exit"} => \A e \in execs : e.uid # loop.uid
    /\ cycle' = Sleeping
    /\ loop' = IF cycle.pc \in {"entry", "exit"}
               THEN [pc |-> "idle", strategy |-> "", uid |-> 0, best |-> <<>>]
               ELSE loop
    /\ entry' = IF cycle.pc \in {"trend", "entry"} THEN NoEntry ELSE entry
    /\ backoff' = [error_count |-> backoff.error_count + 1,
                   delay |-> Delay(backoff.error_count + 1)]
    /\ UNCHANGED <<orders, nextUid, marketVars, settleVars, strategies,
                   strategy_logs, engineVars, clock>>

NextLoop ==
    \/ \E e \in execs : ExecLockProfile(e)
    \/ \E e \in execs : ExecSettle(e)
    \/ ClockAdvance
    \/ CycleStart
    \/ CycleIdle
    \/ CycleLimit
    \/ CyclePrices
    \/ CycleDispatch
    \/ CycleEnd
    \/ CycleFail
    \/ \E atr \in PositionAtrInputs : ActiveTrade(atr)
    \/ \E liquid \in BOOLEAN, klines \in KlineInputs : EntryTrend(liquid, klines)
    \/ \E analyses \in AnalysisInputs : EntryAnalyse(analyses)
    \/ EntryEnter

SpecLoop == InitPosition /\ [][NextLoop]_vars

\* --------------------------- the three mutexes of the matching engine

\* The frames the feed may deliver while the locks are followed.
LockFrames ==
    {<< <<Btc, 39500>> >>,
     << <<Eth, 39000>>, <<Btc, 40500>> >>}

\* The requests posted to process_order while the locks are followed.
LockInputs ==
    {<<"u1", BtcRaw, "buy", 1000000, 40000>>,
     <<"u1", Btc, "sell", 1000000, -1>>}

\* the functions that read a map of the engine under its mutex
Readers == {"get_prices", "get_top_volume_coins"}

\* the mutex a reader locks: self.prices or self.ticker_data
MutexOf(reader) == IF reader = "get_prices" THEN "prices" ELSE "ticker_data"

\* lock().await returns when no task holds the mutex
MutexFree(mutex) == mutexes[mutex] = "free"

\* A task calls get_prices or get_top_volume_coins: it asks for the mutex.
ReaderCall(reader) ==
    /\ mutexes[reader] = "idle"
    /\ mutexes' = [mutexes EXCEPT ![reader] = "wait"]
    /\ UNCHANGED <<orders, book, prices, matchTasks, nextUid, ticks, lastTick,
                   matched, bookLock, feed, calls, added>>
    /\ UNCHANGED <<settleVars, strategyVars, cycleVars>>

\* The reader gets its mutex.
ReaderLock(reader) ==
    /\ mutexes[reader] = "wait"
    /\ MutexFree(MutexOf(reader))
    /\ mutexes' = [mutexes EXCEPT ![reader] = "held", ![MutexOf(reader)] = reader]
    /\ UNCHANGED <<orders, book, prices, matchTasks, nextUid, ticks, lastTick,
                   matched, bookLock, feed, calls, added>>
    /\ UNCHANGED <<settleVars, strategyVars, cycleVars>>

\* a reader that asks for the book lock before it drops its guard
ReaderReturnAfterBook(reader) ==
    /\ mutexes[reader] = "held"
    /\ BookLockFree
    /\ mutexes' = [mutexes EXCEPT ![reader] = "idle", ![MutexOf(reader)] = "free"]
    /\ UNCHANGED <<orders, book, prices, matchTasks, nextUid, ticks, lastTick,
                   matched, bookLock, feed, calls, added>>
    /\ UNCHANGED <<settleVars, strategyVars, cycleVars>>

\* The reader has copied the map: it returns and its guard is dropped.
ReaderReturn(reader) ==
    /\ mutexes[reader] = "held"
    /\ mutexes' = [mutexes EXCEPT ![reader] = "idle", ![MutexOf(reader)] = "free"]
    /\ UNCHANGED <<orders, book, prices, matchTasks, nextUid, ticks, lastTick,
                   matched, bookLock, feed, calls, added>>
    /\ UNCHANGED <<settleVars, strategyVars, cycleVars>>

\* The feed task, holding the book lock, gets the mutex of the price map
\* for the next ticker of the frame.
FeedLockPrices ==
    /\ feed.pc = "scan"
    /\ feed.frame # <<>>
    /\ MutexFree("prices")
    /\ mutexes' = [mutexes EXCEPT !.prices = "feed"]
    /\ feed' = [feed EXCEPT !.pc = "priced"]
    /\ UNCHANGED <<orders, book, prices, matchTasks, nextUid, ticks, lastTick,
                   matched, bookLock, calls, added>>
    /\ UNCHANGED <<settleVars, strategyVars, cycleVars>>

\* The feed task stores the price and drops the guard of the price map, then
\* scans the list of the coin and spawns an execution task for every match.
FeedPriced ==
    /\ FeedScanAt("priced")
    /\ mutexes' = [mutexes EXCEPT !.prices = "free"]

\* The frame is finished: the feed task, still holding the book lock, gets
\* the mutex of the ticker map.
FeedLockTicker ==
    /\ feed.pc = "scan"
    /\ feed.frame = <<>>
    /\ MutexFree("ticker_data")
    /\ mutexes' = [mutexes EXCEPT !.ticker_data = "feed"]
    /\ feed' = [feed EXCEPT !.pc = "ticker"]
    /\ UNCHANGED <<orders, book, prices, matchTasks, nextUid, ticks, lastTick,
                   matched, bookLock, calls, added>>
    /\ UNCHANGED <<settleVars, strategyVars, cycleVars>>

\* The ticker map is updated: its guard and the guard of the book lock are
\* dropped.
FeedTicker ==
    /\ feed.pc = "ticker"
    /\ mutexes' = [mutexes EXCEPT !.ticker_data = "free"]
    /\ bookLock' = "free"
    /\ feed' = [feed EXCEPT !.pc = "wait"]
    /\ UNCHANGED <<orders, book, prices, matchTasks, nextUid, ticks, lastTick,
                   matched, calls, added>>
    /\ UNCHANGED <<settleVars, strategyVars, cycleVars>>

NextLocks ==
    \/ LoadSelect
    \/ LoadPush
    \/ \E frame \in LockFrames : FeedFrame(frame)
    \/ FeedLockPrices
    \/ FeedPriced
    \/ FeedRemove
    \/ FeedLockTicker
    \/ FeedTicker
    \/ \E o \in LockInputs : ProcessOrderCall(o[1], o[2], o[3], o[4], o[5])
    \/ \E call \in calls : AddOrderPush(call)
    \/ \E reader \in Readers : ReaderCall(reader)
    \/ \E reader \in Readers : ReaderLock(reader)
    \/ \E reader \in Readers : ReaderReturn(reader)

SpecLocks == InitBook /\ [][NextLocks]_vars

\* the ids of the rows process_order may insert
CallIds == (Len(PersistedOrders) + 1)..(Len(PersistedOrders) + MaxCalls)

\* add_order of the row order_id gets the book lock
AddOrderOf(order_id) ==
    \E call \in calls : call.order_id = order_id /\ AddOrderPush(call)

\* The scheduling: the mutexes are tokio::sync::Mutex, which hands the lock
\* to its waiters in the order they asked, so a task that asks for a mutex
\* that is released again and again gets it; a task that is not waiting for
\* a lock is polled by the runtime until it returns. The arrival of frames
\* and of calls is not assumed.
LocksFairness ==
    /\ WF_vars(LoadSelect)
    /\ SF_vars(LoadPush)
    /\ SF_vars(FeedLockPrices)
    /\ WF_vars(FeedPriced)
    /\ WF_vars(FeedRemove)
    /\ SF_vars(FeedLockTicker)
    /\ WF_vars(FeedTicker)
    /\ \A order_id \in CallIds : SF_vars(AddOrderOf(order_id))
    /\ \A reader \in Readers : SF_vars(ReaderLock(reader))
    /\ \A reader \in Readers : WF_vars(ReaderReturn(reader))

SpecLocksFair == InitBook /\ [][NextLocks]_vars /\ LocksFairness

\* ------------------------------------- the volume_ratio of analyze_coin

\* The quantities are in thousandths of a coin here.
QtyUnit == 1000

\* A quotient of decimals is kept to six places here (rust_decimal keeps
\* 28): a ratio is an integer number of millionths.
RatioScale == 1000000

\* The quantities of the recent trades the exchange may return for a coin:
\* none, trades of no quantity, one small trade, several trades, and a
\* quantity string with a sign.
TradeInputs ==
    {<<>>, <<0, 0>>, <<1>>, <<250, 750>>, <<1400>>, <<7, 0, 13>>, <<-5>>}

\* total_vol: the sum of the parsed quantities
RECURSIVE TotalVol(_)
TotalVol(trades) ==
    IF trades = <<>> THEN 0 ELSE trades[1] + TotalVol(Tail(trades))

\* Decimal / Decimal: the quotient rounded at the last place kept
DecimalDiv(a, b) ==
    LET n == a * RatioScale
        q == IF n >= 0 THEN n \div b ELSE - ((- n) \div b)
        r == IF n >= 0 THEN n - q * b ELSE (- n) + q * b
    IN IF 2 * r >= b THEN (IF n >= 0 THEN q + 1 ELSE q - 1) ELSE q

\* the volume of the recent trades against one coin a minute for a day
VolumeRatioOfDay(trades) ==
    DecimalDiv(TotalVol(trades), QtyUnit * 1440) * 1440

\* volume_ratio of analyze_coin, in millionths: the 24 h average is taken
\* as total_vol * 1440 (1 000 000 when there is no volume), and the ratio is
\* total_vol / avg_volume_24h * 1440
VolumeRatio(trades) ==
    LET total_vol == TotalVol(trades)
        avg_volume_24h == IF total_vol > 0 THEN total_vol * 1440
                          ELSE 1000000 * QtyUnit
    IN IF avg_volume_24h > 0
       THEN DecimalDiv(total_vol, avg_volume_24h) * 1440
       ELSE RatioScale

\* a ratio in hundredths, as the analyses here carry it: the hundredths are
\* cut off, which keeps every comparison with 1.2
Hundredths(ratio) ==
    IF ratio >= 0 THEN (ratio * 100) \div RatioScale
    ELSE - ((((- ratio) * 100) + RatioScale - 1) \div RatioScale)

\* the analyses of analyze_coin: the volume_ratio of each is computed from
\* the recent trades of its coin, the other indicators are as given
Analysed(analyses, trades) ==
    [i \in 1..Len(analyses) |->
        [analyses[i] EXCEPT !.volume_ratio = Hundredths(VolumeRatio(trades[i]))]]

\* the trades of the candidates of one cycle
TradesOfCandidates == [1..2 -> TradeInputs]

\* The strategy engine with the analyses as analyze_coin computes them. No
\* strategy holds a position at the start; the steps that follow a buy
\* (EntryEnter, the executions, handle_active_trade) are enabled only after
\* EntryAnalyse has placed one.
NextAnalysed ==
    \/ \E k \in PositionTickers : Tick(k[1], k[2])
    \/ ClockAdvance
    \/ CycleStart
    \/ CycleLimit
    \/ CyclePrices
    \/ CycleDispatch
    \/ CycleEnd
    \/ \E liquid \in BOOLEAN, klines \in KlineInputs : EntryTrend(liquid, klines)
    \/ \E analyses \in AnalysisInputs, trades \in TradesOfCandidates :
           EntryAnalyse(Analysed(analyses, trades))
    \/ \E id \in StrategyIds : HttpStop(id)

SpecAnalysed == InitPosition /\ [][NextAnalysed]_vars

\* ------------------------------------ one iteration over every holding

\* What u1 may hold of eth when the strategy starts: nothing, the least
\* quantity a buy can have left, a little more, and more than a coin.
HeldInputs ==
    {NoRow,
     Some([quantity |-> 1, average_buy_price |-> 30000]),
     Some([quantity |-> 2, average_buy_price |-> 30000]),
     Some([quantity |-> 1000001, average_buy_price |-> 30000])}

\* The engines start with one strategy as start_strategy inserts it and
\* with any of the holdings; nothing else trades the coin.
InitHeld ==
    /\ orders = PositionOrders
    /\ profiles = InitialProfiles
    /\ \E held \in HeldInputs :
           holdings = [k \in HoldingKeys |->
                          IF k = <<"u1", Eth>> THEN held ELSE NoRow]
    /\ transactions = <<>>
    /\ book = [c \in Coins |-> <<>>]
    /\ prices = [c \in Coins |-> IF c = Eth THEN 30000 ELSE 40000]
    /\ matchTasks = {}
    /\ execs = {}
    /\ profLock = [u \in Users |-> 0]
    /\ nextUid = 1
    /\ ticks = 0
    /\ lastTick = [coin |-> <<>>, price |-> 0]
    /\ matched = {}
    /\ ledger = <<>>
    /\ failed = {}
    /\ strategies = [id \in StrategyIds |-> Fresh]
    /\ strategy_logs = <<>>
    /\ loop = [pc |-> "idle", strategy |-> "", uid |-> 0, best |-> <<>>]
    /\ bookLock = "free"
    /\ feed = [pc |-> "wait", rows |-> <<>>, frame |-> <<>>, indices |-> <<>>]
    /\ calls = {}
    /\ added = {}
    /\ cycle = Sleeping
    /\ clock = 0
    /\ entry = NoEntry
    /\ backoff = NoBackoff
    /\ mutexes = NoHolders

NextHeld ==
    \/ \E k \in PositionTickers : Tick(k[1], k[2])
    \/ \E e \in execs : ExecLockProfile(e)
    \/ \E e \in execs : ExecSettle(e)
    \/ ClockAdvance
    \/ CycleStart
    \/ CycleLimit
    \/ CyclePrices
    \/ CycleDispatch
    \/ CycleEnd
    \/ \E atr \in PositionAtrInputs : ActiveTrade(atr)
    \/ ActiveTradeReset
    \/ \E liquid \in BOOLEAN, klines \in KlineInputs : EntryTrend(liquid, klines)
    \/ \E analyses \in AnalysisInputs : EntryAnalyse(analyses)
    \/ EntryEnter

SpecHeld == InitHeld /\ [][NextHeld]_vars

\* ============================================================ the claims

\* the condition of a match as the specification states it
Crosses(side, limit, market) ==
    \/ side = "buy" /\ market <= limit
    \/ side = "sell" /\ market >= limit

\* f is one thousandth of t
IsThousandth(f, t) ==
    t = Money(f.c * 1000 + f.n \div 1000000, (f.n % 1000000) * 1000)

\* the fee of 0.1% on price * quantity
FeeOn(p, q) == MulFee(MulPriceQty(p, q))

\* the settlements of the ledger, with the order row and the transaction
\* record of each
Settled == 1..Len(ledger)
SettledRow(i) == orders[ledger[i].order_id]
SettledPrice(i) == transactions[i].price_per_unit
HeldBefore(i) ==
    IF ledger[i].holding_before = NoRow THEN 0
    ELSE Get(ledger[i].holding_before).quantity

\* C1: a tick with price P for coin C removes from the book, and hands to
\* execution, exactly the resting orders of C that P crosses; the other
\* orders of C stay in their order and the lists of the other coins are
\* unchanged.
C1_TickRemovesExactlyCrossing ==
    [][ticks' # ticks =>
        LET c == lastTick'.coin
            p == lastTick'.price
            Stays(o) == ~Crosses(o.order_type, o.price, p)
            crossing == {book[c][i] : i \in {j \in 1..Len(book[c]) :
                            Crosses(book[c][j].order_type, book[c][j].price, p)}}
        IN /\ book'[c] = SelectSeq(book[c], Stays)
           /\ matchTasks' \ matchTasks =
                  {[uid |-> o.uid, id |-> o.id, quantity |-> o.quantity,
                    execution_price |-> p] : o \in crossing}
           /\ \A d \in Coins \ {c} : book'[d] = book[d]]_vars

\* a tick has removed an order of a coin and left another one of that coin,
\* with orders resting for the other coin
C1_Witness ==
    \E m \in matched :
        /\ m.tick = ticks
        /\ Len(book[m.coin]) >= 1
        /\ \E d \in Coins \ {m.coin} : Len(book[d]) >= 1

\* C2: each resting order is matched at most once: no order is matched by
\* two ticks, and a matched order is no longer in the book.
C2_MatchedAtMostOnce ==
    /\ \A m1, m2 \in matched : m1.uid = m2.uid => m1 = m2
    /\ \A m \in matched : \A c \in Coins : \A i \in 1..Len(book[c]) :
           book[c][i].uid # m.uid

\* an order matched by an earlier tick, and a later tick of its coin at a
\* price that crosses its limit
C2_Witness ==
    \E m \in matched :
        /\ m.tick < ticks
        /\ lastTick.coin = m.coin
        /\ Crosses(m.order_type, m.limit, lastTick.price)

\* C3: a settled buy of q at p takes q*p*1.001 from the balance, adds q to
\* the holding, and sets the average buy price to the cost-weighted average
\* (to whole currency units), or to p when there was no holding.
C3_BuySettlement ==
    \A i \in Settled :
        SettledRow(i).order_type = "buy" =>
            LET q == SettledRow(i).quantity
                p == SettledPrice(i)
                e == ledger[i]
                paid == MSub(e.balance_before, e.balance_after)
            IN /\ IsThousandth(MSub(paid, MulPriceQty(p, q)), MulPriceQty(p, q))
               /\ e.holding_after # NoRow
               /\ Get(e.holding_after).quantity = HeldBefore(i) + q
               /\ IF e.holding_before = NoRow
                  THEN Get(e.holding_after).average_buy_price = p
                  ELSE LET a == Get(e.holding_after).average_buy_price
                           cost == MAdd(MulPriceQty(
                                            Get(e.holding_before).average_buy_price,
                                            HeldBefore(i)),
                                        MulPriceQty(p, q))
                       IN /\ ~MLess(cost, MulPriceQty(a, HeldBefore(i) + q))
                          /\ MLess(cost, MulPriceQty(a + 1, HeldBefore(i) + q))

\* a buy settled for a user who already held the coin
C3_Witness ==
    \E i \in Settled :
        /\ SettledRow(i).order_type = "buy"
        /\ ledger[i].holding_before # NoRow

\* C4: a settled sell of q at p adds q*p*0.999 to the balance and takes q
\* from the holding, whose row is deleted when the remainder is at most
\* 0.000001.
C4_SellSettlement ==
    \A i \in Settled :
        SettledRow(i).order_type = "sell" =>
            LET q == SettledRow(i).quantity
                p == SettledPrice(i)
                e == ledger[i]
                remainder == HeldBefore(i) - q
                received == MSub(e.balance_after, e.balance_before)
            IN /\ IsThousandth(MSub(MulPriceQty(p, q), received), MulPriceQty(p, q))
               /\ IF e.holding_before # NoRow /\ remainder > 1
                  THEN e.holding_after =
                           Some([Get(e.holding_before) EXCEPT !.quantity = remainder])
                  ELSE e.holding_after = NoRow

\* a sell settled with a remainder of exactly 0.000001
C4_Witness ==
    \E i \in Settled :
        /\ SettledRow(i).order_type = "sell"
        /\ ledger[i].holding_before # NoRow
        /\ HeldBefore(i) - SettledRow(i).quantity = 1

\* settlement i is that of a buy of 1.0 btc at limit 40000, matched by the
\* tick btc = 39500, of a user with balance 50000 and no btc
C5_Scenario(i) ==
    /\ SettledRow(i).coin_id = Btc
    /\ SettledRow(i).order_type = "buy"
    /\ SettledRow(i).quantity = 1000000
    /\ ledger[i].balance_before = Whole(50000)
    /\ ledger[i].holding_before = NoRow
    /\ \E m \in matched :
           m.id = ledger[i].order_id /\ m.limit = 40000 /\ m.market = 39500

\* C5: a resting buy of 1.0 btc at limit 40000 of a user with balance 50000
\* and no btc, matched by the tick btc = 39500, is removed from the book and
\* completed at 39500, and leaves the balance 10460.5 and a holding of
\* 1.0 btc at average 39500.
C5_SettledAtMarketPrice ==
    \A i \in Settled :
        C5_Scenario(i) =>
            /\ SettledRow(i).order_status = "completed"
            /\ SettledRow(i).price_per_unit = Some(39500)
            /\ ledger[i].balance_after = [c |-> 10460, n |-> 500000000]
            /\ ledger[i].holding_after =
                   Some([quantity |-> 1000000, average_buy_price |-> 39500])
            /\ \A k \in 1..Len(book[Btc]) : book[Btc][k].id # ledger[i].order_id

\* the scenario has been settled
C5_Witness == \E i \in Settled : C5_Scenario(i)

\* C6: a buy whose owner's balance is less than total + fee fails with the
\* insufficient-balance error and leaves the profiles (no row created), the
\* holdings and the transactions as they were.
C6_InsufficientBalanceAborts ==
    [][\A e \in execs :
          (/\ e.pc = "settle"
           /\ e \notin execs'
           /\ orders[e.order_id].order_type = "buy"
           /\ LET q == orders[e.order_id].quantity
                  p == e.execution_price
              IN MLess(e.balance, MAdd(MulPriceQty(p, q), FeeOn(p, q))))
          => /\ profiles' = profiles
             /\ holdings' = holdings
             /\ transactions' = transactions
             /\ profLock'[orders[e.order_id].user_id] = 0
             /\ [order_id |-> e.order_id, error |-> "Insufficient balance"]
                    \in failed']_vars

\* a buy of a user without a profile row has failed for insufficient balance
C6_Witness ==
    \E f \in failed :
        /\ f.error = "Insufficient balance"
        /\ orders[f.order_id].user_id = "u2"
        /\ profiles["u2"] = NoRow

\* C7: an order whose execution fails is not marked completed: its row is
\* still pending, for the orders the matching engine matched and for the
\* buys of handle_entry.
C7_FailedOrderStaysPending ==
    \A f \in failed : orders[f.order_id].order_status = "pending"

\* the settlements of one user that follow each other
NextOfUser(i, j) ==
    /\ i < j
    /\ SettledRow(i).user_id = SettledRow(j).user_id
    /\ \A k \in (i + 1)..(j - 1) : SettledRow(k).user_id # SettledRow(i).user_id

\* settlement i is a buy of q at p and settlement j the sell of q at p that
\* follows it for the same user and coin
C8_BuyThenSell(i, j) ==
    /\ NextOfUser(i, j)
    /\ SettledRow(i).order_type = "buy"
    /\ SettledRow(j).order_type = "sell"
    /\ SettledRow(i).coin_id = SettledRow(j).coin_id
    /\ SettledRow(i).quantity = SettledRow(j).quantity
    /\ SettledPrice(i) = SettledPrice(j)

\* C8: a buy of q at p followed at once by a sell of q at p, same user and
\* coin, leaves the balance at the original minus two fees.
C8_RoundTripCostsTwoFees ==
    \A i, j \in Settled :
        C8_BuyThenSell(i, j) =>
            LET fee == FeeOn(SettledPrice(i), SettledRow(i).quantity)
            IN ledger[i].balance_before =
                   MAdd(ledger[j].balance_after, MAdd(fee, fee))

\* a buy and the sell that follows it have been settled
C8_Witness == \E i, j \in Settled : C8_BuyThenSell(i, j)

\* the balance of u after the first n transactions, from the initial (or
\* seed) balance, the costs of the buys and the proceeds of the sells
RECURSIVE Account(_, _)
Account(u, n) ==
    IF n = 0
    THEN IF InitialProfiles[u] = NoRow THEN Whole(initial_balance)
         ELSE Get(InitialProfiles[u])
    ELSE LET t == transactions[n]
             fee == FeeOn(t.price_per_unit, t.quantity)
             total == MulPriceQty(t.price_per_unit, t.quantity)
         IN IF t.user_id # u THEN Account(u, n - 1)
            ELSE IF t.transaction_type = "buy"
            THEN MSub(Account(u, n - 1), MAdd(total, fee))
            ELSE MSub(MAdd(Account(u, n - 1), total), fee)

C10_SellCreditsAtMostHeld ==
    \A i \in Settled :
        (SettledRow(i).order_type = "sell" /\ HeldBefore(i) < SettledRow(i).quantity)
            => ~MLess(MAdd(ledger[i].balance_before,
                           MulPriceQty(SettledPrice(i), HeldBefore(i))),
                      ledger[i].balance_after)

\* C11: no holding row has a negative quantity, and after a sell the holding
\* row of the sale has a quantity greater than 0.000001 or is deleted.
C11_HoldingsNonNegative ==
    /\ \A k \in HoldingKeys :
           holdings[k] # NoRow => Get(holdings[k]).quantity >= 0
    /\ \A i \in Settled :
           SettledRow(i).order_type = "sell" =>
               \/ ledger[i].holding_after = NoRow
               \/ Get(ledger[i].holding_after).quantity > 1

\* a sell of more than the quantity of the holding row has been settled
C11_Witness ==
    \E i \in Settled :
        /\ SettledRow(i).order_type = "sell"
        /\ ledger[i].holding_before # NoRow
        /\ HeldBefore(i) < SettledRow(i).quantity

\* the executions of u that inserted the profile row: those in flight and
\* those committed
Creators(u) ==
    {e.uid : e \in {x \in execs : x.created /\ orders[x.order_id].user_id = u}}
        \cup {-i : i \in {j \in Settled : ledger[j].created
                                          /\ SettledRow(j).user_id = u}}

ExpectedKey(coin_id) ==
    CASE coin_id = BtcRaw -> Btc
      [] coin_id = EthRaw -> Eth
      [] OTHER -> coin_id

\* the orders handled by add_order or load_pending_orders in the step that
\* have a positive price and belong to the list of coin c
NewlyAccepted(c) ==
    {a \in added' \ added : a.price > 0 /\ ExpectedKey(a.coin_id) = c}

\* every order in the book has a positive price, and no order handled with a
\* price that is not positive is in the book
BookPricesPositive ==
    /\ \A c \in Coins : \A k \in 1..Len(book[c]) : book[c][k].price > 0
    /\ \A a \in added : a.price <= 0 =>
           \A c \in Coins : \A k \in 1..Len(book[c]) : book[c][k].uid # a.uid

\* a step that handles orders leaves every list as it was but for the
\* orders with a positive price, which are at the end of the list of their
\* trimmed, lowercased coin id
AppendedAtEnd ==
    added' # added =>
        \A c \in Coins :
            /\ Len(book'[c]) = Len(book[c]) + Cardinality(NewlyAccepted(c))
            /\ SubSeq(book'[c], 1, Len(book[c])) = book[c]
            /\ {book'[c][k].uid : k \in Len(book[c]) + 1..Len(book'[c])}
                   = {a.uid : a \in NewlyAccepted(c)}

\* C13: every order in the book has a price greater than 0; add_order with a
\* price <= 0 and a persisted pending limit order with a null or non-positive
\* price leave the book unchanged, and an accepted order is appended at the
\* end of the list of its trimmed, lowercased coin id.
C13_BookPricesPositive == []BookPricesPositive /\ [][AppendedAtEnd]_vars

\* the load has skipped the rows with a null and a zero price and has put
\* the row stored as "Eth" in the list of eth; an add_order with a price that
\* is not positive has returned, and the order posted as " BTC " is in the
\* list of btc behind the loaded one
C13_Witness ==
    /\ \E a \in added : a.id = 3 /\ a.price = 0
    /\ \E a \in added : a.id = 4 /\ a.price = 0
    /\ \E a \in added : a.id > Len(PersistedOrders) /\ a.price <= 0
    /\ Len(book[Eth]) >= 1 /\ book[Eth][1].id = 2
    /\ Len(book[Btc]) >= 2 /\ book[Btc][1].id = 1
    /\ \E a \in added : a.uid = book[Btc][2].uid /\ a.coin_id = BtcRaw

\* ------------------------------------------------------------------- C14

\* the feed task is between taking the book lock and dropping it
ScanInProgress == feed.pc \in {"scan", "remove"}

\* while a scan is in progress the only add_order calls that return are the
\* refused ones, and the only change of the book is the removal of matched
\* orders by the feed task
NoPushDuringScan ==
    ScanInProgress =>
        /\ \A a \in added' \ added : a.price <= 0
        /\ \A c \in Coins : book'[c] # book[c] =>
               /\ feed.pc = "remove"
               /\ Len(book'[c]) < Len(book[c])

\* an order is matched only by a tick later than all the ticks processed
\* when it was pushed
MatchedByLaterTick ==
    \A m \in matched : \A a \in added : a.uid = m.uid => m.tick > a.at

\* C14: in any interleaving of add_order calls with the feed task, the book
\* is not modified by add_order while a matching scan is in progress, and an
\* order whose add_order completes after a tick was processed is not matched
\* against that tick, only against a later one.
C14_NoPushDuringScan == []MatchedByLaterTick /\ [][NoPushDuringScan]_vars

\* an order posted by a client was pushed after the first tick was processed
\* and was matched by the second
C14_Witness ==
    \E m \in matched : \E a \in added :
        /\ a.uid = m.uid
        /\ a.id > Len(PersistedOrders)
        /\ a.at = 1
        /\ m.tick = 2

\* ------------------------------------------------------------------- C15

\* the step of the feed task is enabled wherever it stands in a frame, and a
\* further frame can be taken up when the last one is finished
FeedNeverBlocked ==
    /\ feed.pc = "scan" /\ feed.frame # <<>> => ENABLED FeedScan
    /\ feed.pc = "remove" => ENABLED FeedRemove
    /\ feed.pc = "scan" /\ feed.frame = <<>> => ENABLED FeedRelease
    /\ feed.pc = "wait" /\ ticks < MaxTicks =>
           \E frame \in FrameInputs : ENABLED FeedFrame(frame)

\* an execution task is spawned by the feed task while it holds the book
\* lock, and a step of a spawned task leaves the lock, the book and the feed
\* task alone
SpawnedUnderLock ==
    /\ ~(matchTasks' \subseteq matchTasks) => bookLock = "feed" /\ bookLock' = "feed"
    /\ (matchTasks' # matchTasks /\ matchTasks' \subseteq matchTasks) \/ execs' # execs
           => UNCHANGED <<bookLock, book, feed>>

\* an execution task is spawned only when the book lock is free
SpawnedOutsideLock ==
    ~(matchTasks' \subseteq matchTasks) => bookLock = "free"

BookOnlyPending ==
    \A c \in Coins : \A k \in 1..Len(book[c]) :
        orders[book[c][k].id].order_status = "pending"

\* C16: a resting order is in the book only while it is pending: once it is
\* cancelled it is no longer in the book and no later tick matches or
\* executes it.
C16_BookOnlyPending ==
    /\ BookOnlyPending
    /\ \A m \in matched : orders[m.id].order_status # "cancelled"

\* ------------------------------------------------------------------- C17

\* the row of a completed order keeps its status, price and total amount
CompletedRowsKept ==
    \A i \in 1..Len(orders) :
        orders[i].order_status = "completed" =>
            /\ orders'[i].order_status = "completed"
            /\ orders'[i].price_per_unit = orders[i].price_per_unit
            /\ orders'[i].total_amount = orders[i].total_amount

\* C17: once an order row has order_status = completed, no operation changes
\* its status, price_per_unit or total_amount.
C17_CompletedImmutable == [][CompletedRowsKept]_vars

\* ------------------------------------------------------------------- C18

\* the count of completed iterations is within the iterations asked for
IterationsWithinTotal ==
    \A id \in StrategyIds :
        strategies[id].iterations_completed <= strategies[id].total_iterations

\* no step lowers the count of completed iterations
IterationsMonotone ==
    \A id \in StrategyIds :
        strategies'[id].iterations_completed >= strategies[id].iterations_completed

StatusOnlyLeavesRunning ==
    \A id \in StrategyIds :
        strategies'[id].status # strategies[id].status =>
            /\ strategies[id].status = "running"
            /\ strategies'[id].status \in {"stopped", "completed", "force_stopped"}

\* C19: the status of a strategy changes only from running to stopped,
\* completed or force_stopped; once it is not running no operation changes
\* it again.
C19_StatusOnlyLeavesRunning == [][StatusOnlyLeavesRunning]_vars

\* ------------------------------------------------------------------- C20

\* a field of a strategy row is not given a value by the step
NotSet(id, field) ==
    \/ strategies'[id][field] = strategies[id][field]
    \/ strategies'[id][field] = NoRow

\* a step leaves a strategy that is not running out of the trade: no buy
\* order is stored, the position fields get no value and the count of
\* completed iterations stays
NotReentered ==
    \A id \in StrategyIds :
        strategies[id].status # "running" =>
            /\ Len(orders') > Len(orders) =>
                   \/ orders'[Len(orders')].order_type # "buy"
                   \/ orders'[Len(orders')].user_id # strategies[id].user_id
            /\ NotSet(id, "current_coin_id")
            /\ NotSet(id, "entry_price")
            /\ NotSet(id, "high_water_mark")
            /\ strategies'[id].iterations_completed = strategies[id].iterations_completed

\* C20: once the status of a strategy is no longer running the engine does
\* not re-enter it: it stores no buy order for it, does not set
\* current_coin_id, entry_price or high_water_mark and does not increment
\* iterations_completed.
C20_NotReentered == [][NotReentered]_vars

\* the position fields of a strategy are sound: a positive entry price and a
\* high water mark that is not below it
PositionSound(strategy) ==
    /\ strategy.entry_price # NoRow
    /\ Get(strategy.entry_price) > 0
    /\ strategy.high_water_mark # NoRow
    /\ Get(strategy.high_water_mark) >= Get(strategy.entry_price)

HighWaterMarkKept ==
    \A id \in StrategyIds :
        (/\ strategies[id].current_coin_id # NoRow
         /\ strategies'[id].current_coin_id # NoRow
         /\ strategies[id].high_water_mark # NoRow)
        => /\ strategies'[id].high_water_mark # NoRow
           /\ Get(strategies'[id].high_water_mark) >= Get(strategies[id].high_water_mark)

\* C22: while a strategy holds a position managed by handle_active_trade, its
\* stored high_water_mark never decreases from one cycle to the next, for
\* any sequence of observed prices, until the position is closed.
C22_HighWaterMarkMonotone == [][HighWaterMarkKept]_vars

\* handle_active_trade has handled a price below the mark it raised in an
\* earlier cycle, and the position stays open
C22_Witness ==
    \E id \in StrategyIds :
        /\ cycle.pc = "dispatch"
        /\ cycle.k = 2
        /\ cycle.prices[Eth] = 30570
        /\ strategies[id].status = "running"
        /\ strategies[id].current_coin_id = Some(Eth)
        /\ strategies[id].entry_price = Some(30000)
        /\ strategies[id].high_water_mark = Some(30900)

\* a run of handle_active_trade with a positive ATR, on a position more than
\* 0.5% in profit whose price is at or below high_water_mark - 2 * ATR, ends
\* in the exit
TrailingStopExits ==
    \A atr \in PositionAtrInputs :
        (/\ ActiveTrade(atr)
         /\ atr > 0
         /\ LET strategy == Get(cycle.s)
                current_price == cycle.prices[Get(strategy.current_coin_id)]
                entry_price == Get(strategy.entry_price)
                high_water_mark == Get(strategy.high_water_mark)
            IN /\ strategy.entry_price # NoRow
               /\ strategy.high_water_mark # NoRow
               /\ (current_price - entry_price) * 200 > entry_price
               /\ current_price <= high_water_mark - 2 * atr)
        => cycle'.pc = "exit"

CycleStrategy == cycle.snapshot[cycle.k]

\* the termination check of the cycle on a strategy at its limit sets it to
\* completed
LimitStopsStrategy ==
    (/\ cycle.pc = "limits"
     /\ cycle.k <= Len(cycle.snapshot)
     /\ cycle'.pc = "limits"
     /\ cycle'.k = cycle.k + 1
     /\ \/ clock >= cycle.rows[CycleStrategy].end_time
        \/ cycle.rows[CycleStrategy].iterations_completed
               >= cycle.rows[CycleStrategy].total_iterations)
    => strategies'[CycleStrategy].status = "completed"

\* a handler is dispatched only for a strategy that is running, and no step
\* sets a strategy back to running
DispatchOnlyRunning ==
    /\ (cycle.pc = "dispatch" /\ cycle'.pc = "handler")
       => strategies[CycleStrategy].status = "running"
    /\ \A id \in StrategyIds :
           strategies'[id].status = "running" => strategies[id].status = "running"

\* a handler runs only for a strategy that was below its order count at the
\* start of the cycle and that the cycle has not set to completed
HandledBelowLimit ==
    cycle.pc \in {"handler", "trend", "entry", "exit"}
    => /\ cycle.rows[CycleStrategy].iterations_completed
              < cycle.rows[CycleStrategy].total_iterations
       /\ strategies[CycleStrategy].status # "completed"

\* a strategy with no iteration to run never has a position, a log entry or
\* a market order
ExhaustedStaysIdle ==
    \A id \in StrategyIds :
        strategies[id].total_iterations = 0
        => /\ strategies[id].current_coin_id = NoRow
           /\ strategy_logs = <<>>
           /\ \A i \in 1..Len(orders) : orders[i].order_mode # "market"

\* C24: at the start of a cycle every running strategy with
\* iterations_completed >= total_iterations, or with the wall clock at or
\* past its end time, is set to completed and no handler is dispatched for
\* it in that cycle; a strategy created with total_iterations = 0 becomes
\* completed on the next cycle without an order or a position.
C24_LimitsCheckedFirst ==
    /\ [](HandledBelowLimit /\ ExhaustedStaysIdle)
    /\ [][LimitStopsStrategy /\ DispatchOnlyRunning]_vars

\* a strategy with total_iterations = 0 is completed by the first cycle,
\* before its time limit
C24_Witness ==
    \E id \in StrategyIds :
        /\ strategies[id].total_iterations = 0
        /\ strategies[id].status = "completed"
        /\ clock < strategies[id].end_time
        /\ cycle.pc = "dispatch"
        /\ cycle.k = 2

\* a step that force-stops a running strategy without a position changes its
\* status and nothing else
ForceExitIdleOnlyStops ==
    \A id \in StrategyIds :
        (/\ strategies[id].status = "running"
         /\ strategies[id].current_coin_id = NoRow
         /\ strategies'[id].status = "force_stopped")
        => /\ strategies' = [strategies EXCEPT ![id].status = "force_stopped"]
           /\ orders' = orders
           /\ book' = book
           /\ holdings' = holdings
           /\ profiles' = profiles
           /\ transactions' = transactions
           /\ execs' = execs
           /\ strategy_logs' = strategy_logs

\* C25: force_exit_strategy on a running strategy with no open position sets
\* its status to force_stopped and changes nothing else: no order row is
\* inserted, the book, the holdings and the balances are unchanged, and no
\* strategy log entry is written.
C25_ForceExitIdle == [][ForceExitIdleOnlyStops]_vars

\* a strategy that never bought is force-stopped: the orders are those of
\* the start and nothing is logged
C25_Witness ==
    \E id \in StrategyIds :
        /\ strategies[id].status = "force_stopped"
        /\ strategies[id].current_coin_id = NoRow
        /\ strategies[id].entry_price = NoRow
        /\ strategy_logs = <<>>
        /\ Len(orders) = 2
        /\ \A c \in Coins : book[c] = <<>>

\* five closes whose last is more than 1% below the first
DumpCloses(klines) ==
    /\ Len(klines) = 5
    /\ (klines[5] - klines[1]) * 100 < - klines[1]

\* the step of handle_entry that follows the closes of a dump returns: no
\* order, no execution, no log entry, and the strategy row as it was
DumpEndsEntry ==
    (/\ cycle.pc = "trend"
     /\ DumpCloses(entry.klines)
     /\ cycle' # cycle)
    => /\ cycle'.pc = "dispatch"
       /\ orders' = orders
       /\ execs' = execs
       /\ strategies' = strategies
       /\ strategy_logs' = strategy_logs
       /\ profiles' = profiles
       /\ holdings' = holdings

\* a buy of handle_entry is never in flight after the closes of a dump
NoBuyInDump == cycle.pc = "entry" => ~ DumpCloses(entry.klines)

\* C26: when the 5-sample close-over-close return of the BTC klines is below
\* -1% (closes 100, 99, 98, 97, 96), handle_entry returns without inserting
\* a buy order or opening a position.
C26_DumpAbortsEntry == [] NoBuyInDump /\ [][DumpEndsEntry]_vars

\* handle_entry has returned on the dump before the strategy ever bought
C26_Witness ==
    /\ entry.log = "Global Market Dump Detected"
    /\ cycle.pc = "dispatch"
    /\ Len(orders) = 2
    /\ strategy_logs = <<>>
    /\ \A id \in StrategyIds :
           /\ strategies[id].status = "running"
           /\ strategies[id].current_coin_id = NoRow

\* a is a candidate the claim lets handle_entry choose: it passes the
\* filter, no passing candidate has a higher entry_score, and none with the
\* same entry_score has a lower RSI
ChoiceOf(a, analyses) ==
    /\ PassesFilter(a)
    /\ \A j \in 1..Len(analyses) :
           PassesFilter(analyses[j]) =>
               /\ analyses[j].entry_score <= a.entry_score
               /\ analyses[j].entry_score = a.entry_score => a.rsi <= analyses[j].rsi

\* the buy in flight is for such a candidate, at the price of its ticker
BuysTheBest ==
    cycle.pc = "entry" =>
        \E i \in 1..Len(entry.analyses) :
            /\ ChoiceOf(entry.analyses[i], entry.analyses)
            /\ loop.best = <<entry.analyses[i].coin_id,
                             entry.top[entry.analyses[i].coin_id]>>
            /\ orders[Len(orders)].coin_id = entry.analyses[i].coin_id
            /\ orders[Len(orders)].price_per_unit =
                   Some(entry.top[entry.analyses[i].coin_id])

\* the step that ends handle_entry after the buy opens the position on the
\* chosen coin at its price, the high water mark at the entry price
EntersTheBest ==
    (cycle.pc = "entry" /\ cycle'.pc # "entry")
    => \A id \in StrategyIds :
           id = cycle.snapshot[cycle.k] =>
               /\ strategies'[id].current_coin_id = Some(loop.best[1])
               /\ strategies'[id].entry_price = Some(loop.best[2])
               /\ strategies'[id].high_water_mark = strategies'[id].entry_price

\* C27: among the analysed candidates that pass the filter, handle_entry
\* opens the position on the one with the highest entry_score, ties broken
\* by the lower RSI, at that candidate's current price and with
\* high_water_mark = entry_price; with A (0.72) and B (0.85) both passing,
\* the position is opened on B.
C27_BestCandidate == [] BuysTheBest /\ [][EntersTheBest]_vars

\* of A = btc (0.72) and B = eth (0.85), both passing, the position is on B
C27_Witness ==
    /\ entry.analyses = <<CoinAnalysis(Btc, 72, 40, 130, 2),
                          CoinAnalysis(Eth, 85, 50, 130, 2)>>
    /\ cycle.pc = "dispatch"
    /\ \E id \in StrategyIds :
           /\ strategies[id].current_coin_id = Some(Eth)
           /\ strategies[id].entry_price = Some(entry.top[Eth])
           /\ strategies[id].high_water_mark = strategies[id].entry_price
           /\ strategies[id].status = "running"

\* the last market buy of the orders table failed in execution for
\* insufficient balance
LastBuyFailed ==
    \E f \in failed :
        /\ f.error = "Insufficient balance"
        /\ orders[f.order_id].order_type = "buy"
        /\ orders[f.order_id].order_mode = "market"
        /\ \A j \in (f.order_id + 1)..Len(orders) :
               ~ (orders[j].order_type = "buy" /\ orders[j].order_mode = "market")

\* the handler of the cycle that finds a position whose buy failed resets
\* the position fields and sells nothing
FailedBuyIsReset ==
    (/\ cycle.pc = "handler"
     /\ cycle' # cycle
     /\ Get(cycle.s).current_coin_id # NoRow
     /\ LastBuyFailed)
    => /\ orders' = orders
       /\ \A id \in StrategyIds :
              id = cycle.snapshot[cycle.k] =>
                  /\ strategies'[id].current_coin_id = NoRow
                  /\ strategies'[id].entry_price = NoRow
                  /\ strategies'[id].high_water_mark = NoRow

StoppedEntryAborts ==
    (/\ cycle.pc = "trend"
     /\ cycle' # cycle
     /\ \E id \in StrategyIds :
            id = cycle.snapshot[cycle.k] /\ strategies[id].status # "running")
    => /\ cycle'.pc = "dispatch"
       /\ orders' = orders
       /\ strategy_logs' = strategy_logs
       /\ execs' = execs
       /\ strategies' = strategies
       /\ profiles' = profiles
       /\ holdings' = holdings
       /\ book' = book

\* C29: in handle_entry, if the re-read of the strategy row just before the
\* buy finds a status different from running, the buy is aborted with no
\* state change: no order row, no strategy log, no call of execute_order,
\* and the strategy row untouched.
C29_StoppedEntryAborts == [][StoppedEntryAborts]_vars

\* handle_entry has found the strategy stopped by the API while it analysed
C29_Witness ==
    /\ entry.log = "Strategy was stopped during analysis"
    /\ cycle.pc = "dispatch"
    /\ Len(orders) = 2
    /\ strategy_logs = <<>>
    /\ execs = {}
    /\ \E id \in StrategyIds :
           /\ strategies[id].status = "stopped"
           /\ strategies[id].current_coin_id = NoRow
           /\ strategies[id].entry_price = NoRow

\* the strategy of the handler of the cycle, as the cycle read it
Handled == Get(cycle.s)

\* the price of the coin of the position in the prices of the cycle
HandledPrice == cycle.prices[Get(Handled.current_coin_id)]

\* the high water mark after the price of the cycle
HandledMark ==
    LET mark == IF Handled.high_water_mark = NoRow
                THEN Get(Handled.entry_price) ELSE Get(Handled.high_water_mark)
    IN IF HandledPrice > mark THEN HandledPrice ELSE mark

\* the price of the cycle is at or below the stop computed with atr, or at
\* or above the target
ExitDue(atr) ==
    \/ HandledPrice * 1000 <=
           StopPrice(HandledPrice, Get(Handled.entry_price), HandledMark, atr)
    \/ HandledPrice * 100 >=
           Get(Handled.entry_price) * (100 + Handled.profit_percentage)

\* the exit: one completed market sell of the remaining quantity at the
\* price of the cycle, the call of execute_order for it, and the log of the
\* sale with its profit
ExitPlaced ==
    LET quantity == DivAmountPrice(Handled.amount, Get(Handled.entry_price))
        total == MulPriceQty(HandledPrice, quantity)
    IN /\ cycle'.pc = "exit"
       /\ Len(orders') = Len(orders) + 1
       /\ SubSeq(orders', 1, Len(orders)) = orders
       /\ orders'[Len(orders')] =
              [user_id |-> Handled.user_id,
               coin_id |-> Get(Handled.current_coin_id),
               order_type |-> "sell", order_mode |-> "market",
               quantity |-> quantity, price_per_unit |-> Some(HandledPrice),
               total_amount |-> total, order_status |-> "completed"]
       /\ \E e \in execs' \ execs :
              /\ e.order_id = Len(orders')
              /\ execs' = execs \cup {e}
       /\ Len(strategy_logs') = Len(strategy_logs) + 1
       /\ strategy_logs'[Len(strategy_logs')].action = "sell"
       /\ strategy_logs'[Len(strategy_logs')].profit =
              Some([total_sell_amount |-> total, amount |-> Handled.amount])

\* no exit: no order, no execution, no log, and of the strategy row at most
\* the high water mark changes, raised to the price of the cycle
PositionHeld ==
    /\ cycle'.pc = "dispatch"
    /\ orders' = orders
    /\ execs' = execs
    /\ strategy_logs' = strategy_logs
    /\ \A id \in StrategyIds :
           \/ strategies'[id] = strategies[id]
           \/ /\ id = cycle.snapshot[cycle.k]
              /\ strategies'[id] =
                     [strategies[id] EXCEPT !.high_water_mark = Some(HandledPrice)]
              /\ \/ strategies[id].high_water_mark = NoRow
                 \/ Get(strategies[id].high_water_mark) < HandledPrice

\* a step of handle_active_trade on a position with a price exits exactly
\* when the exit is due
ExitsWhenDue ==
    \A atr \in PositionAtrInputs :
        (/\ ActiveTrade(atr)
         /\ HandledPrice # 0
         /\ UnwrapOrDefault(Handled.entry_price) > 0)
        => IF ExitDue(atr) THEN ExitPlaced ELSE PositionHeld

\* the step that ends the exit clears the position fields and counts the
\* iteration, and changes nothing else of the strategy row
ExitClears ==
    (cycle.pc = "exit" /\ cycle'.pc # "exit")
    => /\ orders' = orders
       /\ strategy_logs' = strategy_logs
       /\ \A id \in StrategyIds :
              IF id = cycle.snapshot[cycle.k]
              THEN strategies'[id] =
                       [strategies[id] EXCEPT
                            !.current_coin_id = NoRow,
                            !.current_order_id = NoRow,
                            !.entry_price = NoRow,
                            !.high_water_mark = NoRow,
                            !.iterations_completed = @ + 1]
              ELSE strategies'[id] = strategies[id]

\* C30: handle_active_trade exits the position exactly when the current
\* price is at or below the stop or at or above the target; on exit it
\* inserts one completed market sell for the remaining quantity, calls the
\* execution, logs the realized profit, clears current_coin_id,
\* current_order_id, entry_price and high_water_mark and increments
\* iterations_completed by exactly 1; otherwise it inserts no order and
\* changes nothing in the strategy row except a raised high_water_mark.
C30_ExitExactly == [][ExitsWhenDue /\ ExitClears]_vars

\* the iteration of a position entered at 30000 is closed by the sale at
\* the target 31500
C30_Witness ==
    /\ Len(orders) >= 4
    /\ orders[Len(orders)].order_type = "sell"
    /\ orders[Len(orders)].order_mode = "market"
    /\ orders[Len(orders)].order_status = "completed"
    /\ orders[Len(orders)].price_per_unit = Some(31500)
    /\ orders[Len(orders) - 1].price_per_unit = Some(30000)
    /\ strategy_logs[Len(strategy_logs)].action = "sell"
    /\ \E id \in StrategyIds :
           /\ strategies[id].current_coin_id = NoRow
           /\ strategies[id].high_water_mark = NoRow
           /\ strategies[id].iterations_completed = 1

\* the strategy has an open position: a coin and a positive entry price
HasPosition(strategy) ==
    /\ strategy.current_coin_id # NoRow
    /\ strategy.entry_price # NoRow
    /\ Get(strategy.entry_price) > 0

\* the effects of the claim for the force-exit of strategy id: the tracked
\* order is cancelled, one pending market sell of amount / entry_price at
\* the current price (the entry price without one) is inserted and put at
\* the end of the list of its coin in the book, one sell_force entry is
\* logged, and the status is force_stopped
ForceExitEffects(id) ==
    LET strategy == strategies[id]
        coin_id == Get(strategy.current_coin_id)
        entry_price == Get(strategy.entry_price)
        price == IF prices[coin_id] > 0 THEN prices[coin_id] ELSE entry_price
        quantity == DivAmountPrice(strategy.amount, entry_price)
        sell == orders'[Len(orders')]
        listed == book'[coin_id][Len(book'[coin_id])]
        logged == strategy_logs'[Len(strategy_logs')]
    IN /\ Len(orders') = Len(orders) + 1
       /\ \A i \in 1..Len(orders) :
              IF strategy.current_order_id = Some(i)
              THEN orders'[i] = [orders[i] EXCEPT !.order_status = "cancelled"]
              ELSE orders'[i] = orders[i]
       /\ sell.user_id = strategy.user_id
       /\ sell.coin_id = coin_id
       /\ sell.order_type = "sell"
       /\ sell.order_mode = "market"
       /\ sell.order_status = "pending"
       /\ sell.quantity = quantity
       /\ sell.price_per_unit = Some(price)
       /\ Len(book'[coin_id]) = Len(book[coin_id]) + 1
       /\ SubSeq(book'[coin_id], 1, Len(book[coin_id])) = book[coin_id]
       /\ \A c \in Coins \ {coin_id} : book'[c] = book[c]
       /\ listed.id = Len(orders')
       /\ listed.order_type = "sell"
       /\ listed.price = price
       /\ listed.quantity = quantity
       /\ Len(strategy_logs') = Len(strategy_logs) + 1
       /\ SubSeq(strategy_logs', 1, Len(strategy_logs)) = strategy_logs
       /\ logged.strategy_id = id
       /\ logged.action = "sell_force"
       /\ logged.coin_id = coin_id
       /\ logged.price = price
       /\ strategies' = [strategies EXCEPT ![id].status = "force_stopped"]

\* a force-exit of a strategy with an open position has these effects
ForceExitSells ==
    \A id \in StrategyIds :
        (ForceExit(id) /\ HasPosition(strategies[id])) => ForceExitEffects(id)

\* C31: force_exit_strategy on a strategy with an open position marks any
\* tracked pending order cancelled, inserts one pending market sell for
\* amount / entry_price units at the current price (the entry price when no
\* price is known), registers that sell in the book, writes one sell_force
\* log entry and sets status = force_stopped.
C31_ForceExitSells == [][ForceExitSells]_vars

\* the strategy that tracked the pending sell 1 was force-exited before any
\* ticker: order 1 is cancelled and the sell at the entry price is in the book
C31_Witness ==
    /\ Len(orders) = 3
    /\ orders[1].order_status = "cancelled"
    /\ orders[3].order_status = "pending"
    /\ orders[3].order_mode = "market"
    /\ orders[3].price_per_unit = Some(30000)
    /\ \E k \in 1..Len(book[Eth]) : book[Eth][k].id = 3
    /\ Len(strategy_logs) = 1
    /\ strategy_logs[1].action = "sell_force"
    /\ \E id \in StrategyIds :
           /\ strategies[id].status = "force_stopped"
           /\ strategies[id].current_order_id = Some(1)

\* the order the strategy of the handler tracks, as the cycle read it
TrackedId == Get(Handled.current_order_id)

\* the strategy row after a step: cleared of coin, order and entry price
Cleared(row) ==
    [row EXCEPT !.current_coin_id = NoRow, !.current_order_id = NoRow,
                !.entry_price = NoRow]

\* what the claim lets check_order_status do to the row of strategy id, by
\* the tracked order
TrackedOutcome(id) ==
    IF TrackedId \notin DOMAIN orders
    THEN strategies'[id] = [strategies[id] EXCEPT !.current_order_id = NoRow]
    ELSE LET order == orders[TrackedId]
         IN /\ (order.order_status = "completed" /\ order.order_type = "sell")
                   => strategies'[id] =
                          [Cleared(strategies[id]) EXCEPT
                               !.iterations_completed =
                                   strategies[id].iterations_completed + 1]
            /\ (order.order_status \in {"cancelled", "failed"}
                    /\ order.order_type = "buy")
                   => strategies'[id] = Cleared(strategies[id])
            /\ (order.order_status \in {"cancelled", "failed"}
                    /\ order.order_type = "sell")
                   => strategies'[id] =
                          [strategies[id] EXCEPT !.current_order_id = NoRow]
            /\ order.order_status = "pending"
                   => /\ strategies' = strategies
                      /\ strategy_logs' = strategy_logs
            /\ ~ (order.order_status = "completed" /\ order.order_type = "buy")
                   => orders' = orders /\ book' = book

\* a step of check_order_status moves the strategy as the claim says
StatusMovesStrategy ==
    CheckOrderStatus =>
        \A id \in StrategyIds :
            IF id = cycle.snapshot[cycle.k]
            THEN TrackedOutcome(id)
            ELSE strategies'[id] = strategies[id]

\* C32: check_order_status moves the strategy according to the tracked
\* order: a completed sell clears current_coin_id, current_order_id and
\* entry_price and increments iterations_completed by exactly 1; a cancelled
\* or failed buy clears the whole position without incrementing; a cancelled
\* or failed sell, or a tracked order that no longer exists, clears only
\* current_order_id; a still-pending order changes nothing.
C32_StatusMovesStrategy == [][StatusMovesStrategy]_vars

\* the strategy whose tracked buy had failed is back in the search: the
\* position is cleared and no iteration is counted
C32_Witness ==
    /\ orders[1].order_type = "buy"
    /\ orders[1].order_status = "failed"
    /\ Len(orders) = 2
    /\ cycle.pc = "dispatch"
    /\ \E id \in StrategyIds :
           /\ strategies[id] = [Cleared(TrackedStrategy(1)) EXCEPT
                                    !.status = strategies[id].status]
           /\ strategies[id].status = "running"

\* the delays of the claim by the count of consecutive failures: 5 for the
\* first two, 10 up to the fifth, 30 from the sixth on
BackoffTable(n) == IF n = 0 THEN 0 ELSE IF n <= 2 THEN 5 ELSE IF n <= 5 THEN 10 ELSE 30

\* the delay of the loop is a function of its count of consecutive failures
DelayByCount == backoff.delay = BackoffTable(backoff.error_count)

\* the sleeping loop can always start its next cycle
LoopGoesOn == cycle.pc = "sleep" => ENABLED (CycleStart \/ CycleIdle)

\* a failed cycle is counted, waits 5, 10 or 30 seconds, never less than the
\* failure before it and 5 after a success, and leaves the loop sleeping; a
\* cycle that returns without an error clears the count
BackoffStep ==
    /\ backoff'.error_count > backoff.error_count
           => /\ backoff'.error_count = backoff.error_count + 1
              /\ backoff'.delay \in {5, 10, 30}
              /\ backoff'.delay >= backoff.delay
              /\ backoff.error_count = 0 => backoff'.delay = 5
              /\ cycle'.pc = "sleep"
    /\ backoff'.error_count < backoff.error_count
           => /\ backoff'.error_count = 0
              /\ cycle'.pc = "sleep"
    /\ (cycle.pc # "sleep" /\ cycle'.pc = "sleep")
           => \/ backoff'.error_count = backoff.error_count + 1
              \/ backoff'.error_count = 0

\* C33: the strategy loop never terminates on a cycle error: after a failed
\* process_strategies cycle it retries after a delay that depends only on
\* the number of consecutive failures, taking the values 5s, then 10s, then
\* 30s in non-decreasing order, and the first successful cycle resets the
\* count so that the next failure waits 5s again.
C33_LoopBackoff == [](DelayByCount /\ LoopGoesOn) /\ [][BackoffStep]_vars

\* the sixth consecutive failure, of a cycle that had bought: the loop
\* sleeps for 30 seconds
C33_Witness ==
    /\ backoff = [error_count |-> 6, delay |-> 30]
    /\ cycle.pc = "sleep"
    /\ strategy_logs # <<>>

\* ---------------------------------------------------------------- C34

\* the feed task is suspended in lock().await of the price map or of the
\* ticker map: the mutex it asks for is held by a reader
FeedWaitsForMutex ==
    /\ feed.pc = "scan"
    /\ \/ feed.frame # <<>> /\ ~ MutexFree("prices")
       \/ feed.frame = <<>> /\ ~ MutexFree("ticker_data")

\* C34: while the feed task holds the book lock it is never waiting for
\* another lock: no reachable state has the feed task holding the book lock
\* and suspended on the mutex of the price map or of the ticker map.
C34_NoWaitUnderBookLock ==
    bookLock = "feed" => ~ FeedWaitsForMutex

\* ---------------------------------------------------------------- C35

\* the tasks that take the mutexes of the engine
LockTasks == {"feed", "load_pending_orders", "add_order"} \cup Readers

\* the locks a task holds
Holds(task) ==
    CASE task = "feed" ->
             (IF bookLock = "feed" THEN {"orders"} ELSE {})
             \cup (IF mutexes.prices = "feed" THEN {"prices"} ELSE {})
             \cup (IF mutexes.ticker_data = "feed" THEN {"ticker_data"} ELSE {})
      [] task \in Readers ->
             IF mutexes[MutexOf(task)] = task THEN {MutexOf(task)} ELSE {}
      [] OTHER -> {}

\* the locks a task is suspended on
Wants(task) ==
    CASE task = "feed" ->
             IF feed.pc = "scan"
             THEN (IF feed.frame # <<>> THEN {"prices"} ELSE {"ticker_data"})
             ELSE {}
      [] task = "load_pending_orders" ->
             IF feed.pc = "loaded" THEN {"orders"} ELSE {}
      [] task = "add_order" ->
             IF calls # {} THEN {"orders"} ELSE {}
      [] OTHER ->
             IF mutexes[task] = "wait" THEN {MutexOf(task)} ELSE {}

\* a task waits for another: it is suspended on a lock the other holds
WaitsFor ==
    {w \in LockTasks \X LockTasks :
        w[1] # w[2] /\ Wants(w[1]) \cap Holds(w[2]) # {}}

\* the pairs joined by two steps of a relation, added to it
Longer(R) ==
    R \cup {w \in LockTasks \X LockTasks :
               \E t \in LockTasks : <<w[1], t>> \in R /\ <<t, w[2]>> \in R}

\* the tasks joined by a chain of waits (chains of up to eight waits, more
\* than there are tasks)
WaitChains == Longer(Longer(Longer(WaitsFor)))

\* no task waits, through a chain of waits, for itself
NoWaitCycle == \A task \in LockTasks : <<task, task>> \notin WaitChains

\* every mutex has the holder the tasks' positions say, and a reader that
\* holds its mutex can return whatever the other tasks do
HoldersReturn ==
    /\ \A reader \in Readers :
          /\ mutexes[reader] = "held" <=> mutexes[MutexOf(reader)] = reader
          /\ mutexes[reader] = "held" => ENABLED ReaderReturn(reader)
    /\ mutexes.prices = "feed" <=> feed.pc = "priced"
    /\ mutexes.ticker_data = "feed" <=> feed.pc = "ticker"
    /\ bookLock = "feed" <=> feed.pc \in {"scan", "priced", "remove", "ticker"}

\* every call of a reader gets its mutex and returns
ReadersReturn ==
    \A reader \in Readers :
        (mutexes[reader] = "wait") ~> (mutexes[reader] = "idle")

\* every call of add_order gets the book lock and returns
AddOrderReturns ==
    \A order_id \in CallIds :
        (\E call \in calls : call.order_id = order_id)
            ~> (\A call \in calls : call.order_id # order_id)

\* load_pending_orders gets the book lock and returns
LoadReturns == (feed.pc \in {"boot", "loaded"}) ~> (feed.pc = "wait")

\* the feed task gets the mutexes of the maps and drops the book lock
FeedReturns == (bookLock = "feed") ~> (bookLock = "free")

\* C35: the three mutexes cannot deadlock: no task waits for a lock in a
\* cycle, and under fair scheduling every call of add_order, get_prices,
\* get_top_volume_coins and load_pending_orders, and every frame of the
\* feed task, gets its locks and returns.
C35_NoDeadlock ==
    /\ [](NoWaitCycle /\ HoldersReturn)
    /\ ReadersReturn
    /\ AddOrderReturns
    /\ LoadReturns
    /\ FeedReturns

\* the feed task, holding the book lock, waits for the price map that
\* get_prices holds, while a call of add_order waits for the book lock and
\* get_top_volume_coins holds the ticker map
C35_Witness ==
    /\ bookLock = "feed"
    /\ FeedWaitsForMutex
    /\ feed.frame # <<>>
    /\ calls # {}
    /\ \A reader \in Readers : mutexes[reader] = "held"
    /\ Cardinality(WaitsFor) >= 2

\* ---------------------------------------------------------------- C36

\* C36: each order id is settled at most once: over load_pending_orders,
\* calls of add_order and ticks, no two committed settlements (a balance and
\* holdings change with its transaction record) are of the same order id.
C36_SettledOncePerId ==
    /\ \A i, j \in Settled : ledger[i].order_id = ledger[j].order_id => i = j
    /\ \A i, j \in 1..Len(transactions) :
           transactions[i].order_id = transactions[j].order_id => i = j

\* ---------------------------------------------------------------- C37

\* the volume_ratio of every list of recent trades is below 1.2: within the
\* rounding of the quotient of 1 when the total quantity is positive, 0 when
\* there is no quantity
VolumeRatioLow ==
    \A trades \in TradeInputs :
        LET ratio == VolumeRatio(trades)
        IN /\ ratio * 10 < 12 * RatioScale
           /\ TotalVol(trades) > 0 =>
                  /\ ratio <= RatioScale + 1440
                  /\ ratio >= RatioScale - 1440
           /\ TotalVol(trades) = 0 => ratio = 0

\* no candidate, whatever its other indicators and its recent trades, passes
\* the filter of handle_entry
NoCandidatePasses ==
    \A analyses \in AnalysisInputs, trades \in TradesOfCandidates :
        /\ \A i \in 1..Len(analyses) :
               ~ PassesFilter(Analysed(analyses, trades)[i])
        /\ BestCoin(Analysed(analyses, trades)) = NoRow

\* handle_entry, past the trend of BTC, returns without a buy order, a log
\* of a buy, or a change of any strategy
NoBuyPlaced ==
    (cycle.pc = "trend" /\ cycle'.pc # "trend") =>
        /\ orders' = orders
        /\ strategies' = strategies
        /\ strategy_logs' = strategy_logs
        /\ cycle'.pc # "entry"
        /\ entry'.log \in {"Global Market Dump Detected",
                           "No coins meet threshold",
                           "Analysis failed for all candidates"}

\* no order was ever inserted and no strategy holds a position
NeverInPosition ==
    /\ orders = PositionOrders
    /\ cycle.pc # "entry"
    /\ \A id \in StrategyIds :
           /\ strategies[id].current_coin_id = NoRow
           /\ strategies[id].entry_price = NoRow

\* C37: the volume_ratio analyze_coin computes is below 1.2 for every list
\* of recent trades (about 1 for a positive total quantity, 0 for none), so
\* no analysed candidate passes the filter of handle_entry, and handle_entry
\* never inserts a buy order or opens a position.
C37_VolumeRatioBlocksEntry ==
    [](VolumeRatioLow /\ NoCandidatePasses /\ NeverInPosition)
        /\ [][NoBuyPlaced]_vars

\* handle_entry has analysed candidates of a running strategy, none of which
\* passed the filter
C37_Witness ==
    /\ entry.log = "No coins meet threshold"
    /\ cycle.s # NoRow
    /\ IsRunning(cycle.snapshot[cycle.k])
    /\ prices[Eth] > 0

\* ---------------------------------------------------------------- C38

\* the termination checks of the cycle set strategy id to completed
SetCompleted(id) ==
    /\ CycleLimit
    /\ strategies[id].status # "completed"
    /\ strategies'[id].status = "completed"

ForceExited(id) ==
    /\ strategies[id].status = "force_stopped"
    /\ HasPosition(strategies[id])
    /\ \E i \in 1..Len(strategy_logs) :
           /\ strategy_logs[i].strategy_id = id
           /\ strategy_logs[i].action = "sell_force"

\* C39: force_exit_strategy is idempotent: a second call on a strategy whose
\* position the first call sold inserts no further sell order, adds nothing
\* to the book and writes no further sell_force log.
C39_ForceExitIdempotent ==
    [][\A id \in StrategyIds :
           (ForceExited(id) /\ ForceExit(id)) =>
               /\ Len(orders') = Len(orders)
               /\ book' = book
               /\ strategy_logs' = strategy_logs]_vars

\* ---------------------------------------------------------------- C40

\* the quantity of a holding row, none for no row
HeldQuantity(row) == IF row = NoRow THEN 0 ELSE Get(row).quantity

\* settlement i is the market buy of an entry and settlement j, the next of
\* that user, the market sell of the exit of that coin
Iteration(i, j) ==
    /\ NextOfUser(i, j)
    /\ SettledRow(i).order_type = "buy"
    /\ SettledRow(i).order_mode = "market"
    /\ SettledRow(j).order_type = "sell"
    /\ SettledRow(j).order_mode = "market"
    /\ SettledRow(i).coin_id = SettledRow(j).coin_id
    /\ \E b, s \in 1..Len(strategy_logs) :
           /\ b < s
           /\ strategy_logs[b].action = "buy"
           /\ strategy_logs[s].action = "sell"
           /\ strategy_logs[b].strategy_id = strategy_logs[s].strategy_id

\* the quantity sold at the exit is the quantity bought at the entry
SoldWhatWasBought(i, j) == SettledRow(j).quantity = SettledRow(i).quantity

====
